---------------------------- MODULE Spec2Model ----------------------------
(***************************************************************************)
(* A model of the step recorder's core (code/recorder_core.py):            *)
(* StepRecorderCore with its RecordingSession, the two pynput listener     *)
(* threads that run _on_click and _on_key_release, the UI thread that      *)
(* calls start/stop/pause/resume/add_note/process_queue, and the timer     *)
(* threads that run _timer_loop.                                           *)
(*                                                                         *)
(* Time is an integer number of milliseconds (datetime.now()).  A Python   *)
(* thread may be preempted between any two attribute accesses, so every    *)
(* method that runs on more than one thread is cut at its reads and        *)
(* writes of shared attributes; `self.step += 1` is a load followed by a   *)
(* store.                                                                  *)
(***************************************************************************)
EXTENDS Integers, Sequences, FiniteSets, Bags, TLC

(***************************************************************************)
(* Bounds of the model.                                                    *)
(***************************************************************************)
MaxInputs   == 4      \* inputs of all kinds together
MaxSessions == 2      \* calls of start_recording that find no recording active
MaxClicks   == 2      \* mouse presses delivered
MaxKeys     == 2      \* key releases delivered
MaxNotes    == 1      \* add_note calls
MaxPauses   == 1      \* pause_recording calls
MaxResumes  == 1      \* resume_recording calls
MaxFails    == 1      \* screenshot captures that raise
MaxStartFails == 1    \* listeners that fail to start
MaxRefused  == 1      \* calls of stop, pause, resume, add_note with no recording active
MaxRestarts == 1      \* calls of start_recording with a recording active
MaxTicks    == 1      \* advances of the clock
TimeTicks   == 3      \* advances of the clock where only the duration is looked at
LiveSessions == 1     \* recordings started where an open group is followed
ClockStep   == 1001   \* milliseconds per advance of the clock
MaxGroup    == 3      \* keys of a keystroke group whose text is looked at
MaxEvents   == 4      \* calls of should_capture
MaxExports  == 1      \* calls of export_all
MaxStats    == 1      \* calls of get_statistics
MaxEdits    == 1      \* changes the caller makes to the dictionary it was given
MaxMarks    == 1      \* calls of add_bookmark, and of add_comment
MaxLookups  == 1      \* calls of get_bookmarks, and of get_comments
MaxVersions == 1      \* calls of save_step_version
MaxUndos    == 1      \* calls of undo_step, and of redo_step
MaxSaves    == 1      \* calls of auto_save, and of load_auto_save
MaxStepNumber == 2    \* the step numbers the WorkflowManager is asked about
MaxToggles  == 2      \* presses of the pause button of EnhancedStepRecorder

(***************************************************************************)
(* Program constants.                                                      *)
(***************************************************************************)
key_grouping_delay == 1000
auto_save_interval == 30     \* WorkflowManager.auto_save_interval, in seconds

NoTime  == -1                \* Python None for a datetime
NoPath  == <<"None">>        \* Python None for a screenshot path
Absent  == <<"absent">>      \* a key the step dictionary does not have
NoEvent == [kind |-> "none"]
NoStep  == [type |-> "none"]
NoGroup == [sess |-> 0, idx |-> 0, num |-> 0]
NoTitle == "None"            \* Python None for a window title

Threads == {"M", "K", "U"}   \* mouse listener, keyboard listener, UI thread

(***************************************************************************)
(* Keys.  A pynput KeyCode carries a character; a pynput Key is a named    *)
(* special key whose str() is "Key.<name>".  Strings are sequences of      *)
(* one-character strings, so that "".join is concatenation.                *)
(***************************************************************************)
CharKey(c)    == [k |-> "char", v |-> c]
SpecialKey(n) == [k |-> "special", v |-> n]

PrintableChars == {"a", "b", "x"}
ControlChars   == {"c19"}            \* chr(19), as Ctrl+S delivers it
SpecialNames   == {"enter", "tab", "backspace", "shift", "ctrl_l", "esc", "f1"}

AllKeys == {CharKey(c) : c \in PrintableChars \cup ControlChars \cup {" "}}
             \cup {SpecialKey(n) : n \in SpecialNames}

\* The inputs of the concurrent model.  No handler branches on where a click is or
\* on which printable character a key is, so the n-th click and the n-th key of a
\* run are fixed and all inputs of a run differ; when they arrive is free.
InputKeys == <<CharKey("a"), CharKey("b"), CharKey("x")>>
Positions == <<<<100, 100>>, <<200, 200>>, <<300, 300>>>>
Buttons   == {"Button.left"}
NthKey(n)   == InputKeys[((n - 1) % Len(InputKeys)) + 1]
NthClick(n) == Positions[((n - 1) % Len(Positions)) + 1]
NoteTexts == {<<"h", "e", "l", "l", "o">>}

S_Space == <<"S", "p", "a", "c", "e">>
S_Enter == <<"E", "n", "t", "e", "r">>
S_Tab   == <<"T", "a", "b">>
S_Backspace == <<"B", "a", "c", "k", "s", "p", "a", "c", "e">>
S_Delete == <<"D", "e", "l", "e", "t", "e">>
S_Escape == <<"E", "s", "c", "a", "p", "e">>
S_Shift == <<"S", "h", "i", "f", "t">>
S_Ctrl  == <<"C", "t", "r", "l">>
S_Esc   == <<"E", "s", "c">>
S_F1    == <<"F", "1">>
S_Char19 == <<"C", "h", "a", "r", "(", "1", "9", ")">>
S_Ctrl_L == <<"C", "t", "r", "l", "_", "L">>
S_Shift_L == <<"S", "h", "i", "f", "t", "_", "L">>
S_Alt_L == <<"A", "l", "t", "_", "L">>
S_Pressed == <<"P", "r", "e", "s", "s", "e", "d", ":", " ">>
S_CommaSpace == <<",", " ">>
S_SpecialKeysPressed == <<"S", "p", "e", "c", "i", "a", "l", " ", "k", "e", "y", "s", " ",
                          "p", "r", "e", "s", "s", "e", "d">>

\* str(key).replace("Key.", "").replace("'", "").title() of a special key
TitleOf(n) ==
    CASE n = "enter"     -> S_Enter
      [] n = "tab"       -> S_Tab
      [] n = "backspace" -> S_Backspace
      [] n = "shift"     -> S_Shift
      [] n = "ctrl_l"    -> S_Ctrl_L
      [] n = "esc"       -> S_Esc
      [] n = "f1"        -> S_F1

\* key_mapping.get(key_str, key_str)
KeyMapping(s) ==
    CASE s = S_Ctrl_L  -> S_Ctrl
      [] s = S_Shift_L -> S_Shift
      [] OTHER         -> s

key_to_name(key) ==
    IF key.k = "char"
    THEN IF key.v = " " THEN S_Space
         ELSE IF key.v \in PrintableChars THEN <<key.v>>
         ELSE S_Char19
    ELSE KeyMapping(TitleOf(key.v))

\* every character of a name the model produces is printable ASCII, and a
\* name is never empty
is_safe_for_xml(text) == text # <<>>

ExcludedNames == {S_Char19, S_Ctrl_L, S_Shift_L, S_Alt_L}
NamedSpecial  == {S_Enter, S_Space, S_Tab, S_Backspace, S_Delete, S_Escape}

RECURSIVE Join(_, _)
Join(parts, sep) ==
    IF parts = <<>> THEN <<>>
    ELSE IF Len(parts) = 1 THEN parts[1]
    ELSE parts[1] \o sep \o Join(Tail(parts), sep)

RECURSIVE FilterSeq(_, _)
FilterSeq(s, S) ==
    IF s = <<>> THEN <<>>
    ELSE (IF s[1] \in S THEN <<s[1]>> ELSE <<>>) \o FilterSeq(Tail(s), S)

keystrokes_to_text(keystrokes) ==
    LET names == [i \in 1..Len(keystrokes) |-> key_to_name(keystrokes[i])]
        safe  == {n \in {names[i] : i \in 1..Len(names)} :
                     is_safe_for_xml(n) /\ n \notin ExcludedNames}
        text_parts   == FilterSeq(names, safe)
        special_keys == FilterSeq(names, NamedSpecial)
    IN  IF text_parts = <<>>
        THEN IF special_keys # <<>>
             THEN S_Pressed \o Join(special_keys, S_CommaSpace)
             ELSE S_SpecialKeysPressed
        ELSE Join(text_parts, <<>>)

\* f"Click {button} at ({x},{y})"
ClickContent(x, y, button) == <<"Click ", button, " at (", x, ",", y, ")">>

\* os.path.abspath(f"step_{self.step:04d}.png")
PathOf(n) == <<"step_", n, ".png">>

\* win32gui is not importable: the title is the fallback
get_active_window_title == "Unknown App"

NewStatistics ==
    [clicks |-> 0, keystrokes |-> 0, notes |-> 0, applications |-> {},
     total_steps |-> 0, recording_duration |-> 0]

\* RecordingSession(); id is the identity of the object
RecordingSession(id) ==
    [id |-> id, start_time |-> NoTime, end_time |-> NoTime, steps |-> <<>>,
     screenshots |-> <<>>, statistics |-> NewStatistics]

VARIABLES
    recording, paused, step, start_time, queue, outputs, last_click,
    current_keystrokes, last_key_time, session, timer_running,
    mouse_listener, kb_listener,
    now,          \* the wall clock, in milliseconds
    files,        \* the screenshot files on disk
    pc,           \* where each thread is
    tmp,          \* per thread: the value of self.step loaded by `self.step += 1`
    img,          \* per thread: img_path
    txt,          \* per thread: keystroke_text
    sd,           \* per thread: step_data
    ev,           \* per thread: the event or argument being handled
    timers,       \* the timer threads: how many are at the loop test, and the local
                  \* `duration` of each one that is about to store it
    escaped,      \* threads out of whose entry point an exception has propagated
    count,        \* how many inputs of each kind have been given (bounds the model)
    pausedMs,     \* history: for how long the session has been paused so far
    script,       \* the inputs still to come, when the inputs are scripted
    smart_capture, \* the SmartCapture object, and the last call of should_capture
    export,       \* the call of ExportManager.export_all: its loop and its results
    stats,        \* the dictionary of get_statistics, in the hands of its caller
    workflow,     \* the WorkflowManager, its auto-save files and its last call
    app,          \* the StepRecorderApp of code/step_recorder.py
    ui            \* the EnhancedStepRecorder of code/step_recorder_enhanced.py

vars == <<recording, paused, step, start_time, queue, outputs, last_click,
          current_keystrokes, last_key_time, session, timer_running,
          mouse_listener, kb_listener, now, files, pc, tmp, img, txt, sd, ev,
          timers, escaped, count, pausedMs, script, smart_capture, export,
          stats, workflow, app, ui>>

localVars == <<tmp, img, txt, sd, ev>>

\* the recorder and its threads, without the bookkeeping of the inputs
recorderVars == <<recording, paused, step, start_time, queue, outputs, last_click,
                  current_keystrokes, last_key_time, session, timer_running,
                  mouse_listener, kb_listener, now, files, pc, tmp, img, txt, sd,
                  ev, timers, escaped, pausedMs>>

\* the objects that work beside the recorder (code/smart_capture.py,
\* code/exporters.py)
collaboratorVars == <<smart_capture, export, stats, workflow, app, ui>>

\* all of them but one
exceptCapture  == <<export, stats, workflow, app, ui>>
exceptExport   == <<smart_capture, stats, workflow, app, ui>>
exceptStats    == <<smart_capture, export, workflow, app, ui>>
exceptWorkflow == <<smart_capture, export, stats, app, ui>>
exceptApp      == <<smart_capture, export, stats, workflow, ui>>
exceptUI       == <<smart_capture, export, stats, app>>

\* dict insertion order of ExportManager.exporters
Formats == <<"docx", "html", "md", "json">>

NoResults == [f \in {} |-> FALSE]      \* the empty dict
NoData    == [metadata |-> "none"]     \* no json_data

\* no WorkflowManager has been made
NoWorkflow == [session |-> 0, bookmarks |-> <<>>, comments |-> <<>>,
               step_versions |-> <<>>, redo_stack |-> <<>>, last_auto_save |-> 0,
               autosaves |-> <<>>, calls |-> 0, asked |-> NoEvent,
               returned |-> FALSE]

\* StepRecorderApp.__init__ (code/step_recorder.py, lines 39-73), with the Tk
\* event loop it runs in: after is what master.after has scheduled, listening the
\* listener threads that deliver events, pc and ret where each thread is in the
\* methods of the app.  ran, via, stopped and esc remember who ran stop, how it
\* was asked for, and the group that was open when ESC was released.
NoApp ==
    [recording |-> FALSE, step |-> 0, queue |-> <<>>, last_click |-> <<100, 100>>,
     current_keystrokes |-> <<>>, last_key_time |-> 0, doc |-> <<>>, saved |-> <<>>,
     mouse_listener |-> FALSE, kb_listener |-> FALSE, listening |-> {},
     after |-> EmptyBag,
     pc |-> [t \in Threads |-> "idle"], ret |-> [t \in Threads |-> "idle"],
     key |-> NoEvent, click |-> NoEvent,
     ran |-> {}, via |-> "none", stopped |-> "none",
     esc |-> [n |-> 0, group |-> <<>>]]

\* EnhancedStepRecorder.__init__ (code/step_recorder_enhanced.py, lines 46-82):
\* export_manager is the id of the session the ExportManager was made for (0 is
\* None), after whether master.after holds a call of _process_queue, pc where the UI thread is in start_recording and stop_recording, and
\* exported what the last export was handed: the call, whether a file was
\* written, and the screenshots the steps name that were not on disk.
NoUI ==
    [recording |-> FALSE, paused |-> FALSE, timer_running |-> FALSE,
     after |-> FALSE, export_manager |-> 0, pc |-> "idle",
     exported |-> [op |-> "none", written |-> FALSE, missing |-> {}]]

\* get_statistics has not been called
NoStats == [dict |-> "none", applications |-> "none", returned |-> FALSE,
            items |-> [clicks |-> 0, keystrokes |-> 0, notes |-> 0,
                       applications |-> <<>>, total_steps |-> 0,
                       recording_duration |-> 0, current_duration |-> 0]]

\* no call of export_all is running and none has returned
NoExport == [at |-> 0, results |-> NoResults, outcomes |-> <<>>,
             returned |-> FALSE, json_data |-> NoData]

\* SmartCapture.__init__; no call of should_capture has been made
InitCollaborators ==
    /\ smart_capture = [last_window_title |-> NoTitle, last_screenshot |-> NoPath,
                        asked |-> NoEvent, returned |-> FALSE, before |-> NoTitle]
    /\ export = NoExport
    /\ stats = NoStats
    /\ workflow = NoWorkflow
    /\ app = NoApp
    /\ ui = NoUI

\* StepRecorderCore.__init__
InitRecorder ==
    /\ recording = FALSE
    /\ paused = FALSE
    /\ step = 0
    /\ start_time = NoTime
    /\ queue = <<>>
    /\ outputs = <<>>
    /\ last_click = <<100, 100>>
    /\ current_keystrokes = <<>>
    /\ last_key_time = 0
    /\ session = RecordingSession(0)
    /\ timer_running = FALSE
    /\ mouse_listener = FALSE
    /\ kb_listener = FALSE
    /\ now = 0
    /\ files = {}
    /\ pc = [t \in Threads |-> "idle"]
    /\ tmp = [t \in Threads |-> 0]
    /\ img = [t \in Threads |-> NoPath]
    /\ txt = [t \in Threads |-> <<>>]
    /\ sd = [t \in Threads |-> NoStep]
    /\ ev = [t \in Threads |-> NoEvent]
    /\ timers = [run |-> 0, write |-> EmptyBag]
    /\ escaped = {}
    /\ count = [inputs |-> 0, starts |-> 0, clicks |-> 0, keys |-> 0, notes |-> 0,
                pauses |-> 0, resumes |-> 0, fails |-> 0, startfails |-> 0,
                refused |-> 0, restarts |-> 0, events |-> 0, exports |-> 0,
                stats |-> 0, edits |-> 0, marks |-> 0, lookups |-> 0,
                versions |-> 0, undos |-> 0, redos |-> 0, saves |-> 0, loads |-> 0, stops |-> 0,
                waits |-> 0, toggles |-> 0, atPause |-> <<>>,
                atStart |-> [clicks |-> 0, keys |-> 0]]
    /\ pausedMs = 0

Init == InitRecorder /\ script = <<>> /\ InitCollaborators


(***************************************************************************)
(* Helpers of the thread model.                                            *)
(***************************************************************************)
Goto(t, l) == pc' = [pc EXCEPT ![t] = l]

\* the thread's call returns: its locals are dead
ClearLocals(t) ==
    /\ tmp' = [tmp EXCEPT ![t] = 0]
    /\ img' = [img EXCEPT ![t] = NoPath]
    /\ txt' = [txt EXCEPT ![t] = <<>>]
    /\ sd'  = [sd EXCEPT ![t] = NoStep]
    /\ ev'  = [ev EXCEPT ![t] = NoEvent]

Return(t) == Goto(t, "idle") /\ ClearLocals(t)

\* an exception propagates out of the thread's entry point: no handler catches it
\* in recorder_core.py
Raise(t) == Return(t) /\ escaped' = escaped \cup {t}


\* where _record_keystroke_group returns to: _on_click (M), _on_key_release (K),
\* stop_recording (U)
AfterFlush(t) ==
    CASE t = "M" -> "m_put"
      [] t = "K" -> "k_append"
      [] t = "U" -> "stop2"

get_recording_duration ==
    IF start_time = NoTime THEN 0
    ELSE IF paused THEN session.statistics.recording_duration
    ELSE now - start_time

\* start_timer: timer_running = True and a new thread runs _timer_loop
start_timer ==
    /\ timer_running' = TRUE
    /\ timers' = [timers EXCEPT !.run = @ + 1]

(***************************************************************************)
(* The UI thread: the public methods of StepRecorderCore.                  *)
(***************************************************************************)
\* start_recording, lines 80-87
StartRecording ==
    /\ pc["U"] = "idle"
    /\ ~recording
    /\ recording' = TRUE
    /\ paused' = FALSE
    /\ step' = 0
    /\ start_time' = now
    /\ Goto("U", "start2")
    /\ UNCHANGED <<queue, outputs, last_click, current_keystrokes, last_key_time,
                   session, timer_running, mouse_listener, kb_listener, now, files,
                   localVars, timers, escaped, pausedMs>>

\* start_recording, lines 88-116: the new session, the listeners, the timer
StartRecording2 ==
    /\ pc["U"] = "start2"
    /\ session' = [RecordingSession(session.id + 1) EXCEPT !.start_time = start_time]
    /\ mouse_listener' = TRUE
    /\ kb_listener' = TRUE
    /\ start_timer
    /\ pausedMs' = 0
    /\ Goto("U", "idle")
    /\ UNCHANGED <<recording, paused, step, start_time, queue, outputs, last_click,
                   current_keystrokes, last_key_time, now, files, localVars,
                   escaped>>
    /\ UNCHANGED <<count, script, collaboratorVars>>

\* start_recording, lines 88-107: the new session, then a listener fails to start.
\* When it is the keyboard listener (lines 103-104), the mouse listener has been
\* started; the handler sets recording = False and raises to the caller.
StartFails(which) ==
    /\ pc["U"] = "start2"
    /\ session' = [RecordingSession(session.id + 1) EXCEPT !.start_time = start_time]
    /\ mouse_listener' = (which = "keyboard")
    /\ recording' = FALSE
    /\ pausedMs' = 0
    /\ Goto("U", "idle")
    /\ UNCHANGED <<paused, step, start_time, queue, outputs, last_click,
                   current_keystrokes, last_key_time, timer_running, kb_listener,
                   now, files, localVars, timers, escaped>>

\* stop_recording, lines 120-125
StopRecording ==
    /\ pc["U"] = "idle"
    /\ recording
    /\ Goto("U", IF current_keystrokes # <<>> THEN "f_check" ELSE "stop2")
    /\ UNCHANGED <<recording, paused, step, start_time, queue, outputs, last_click,
                   current_keystrokes, last_key_time, session, timer_running,
                   mouse_listener, kb_listener, now, files, localVars, timers,
                   escaped, pausedMs>>

\* stop_recording, lines 127-152
StopRecording2 ==
    /\ pc["U"] = "stop2"
    /\ recording' = FALSE
    /\ paused' = FALSE
    /\ session' = [session EXCEPT
                     !.end_time = now,
                     !.statistics.recording_duration =
                         IF session.start_time # NoTime
                         THEN now - session.start_time ELSE @]
    /\ timer_running' = FALSE
    /\ mouse_listener' = FALSE
    /\ kb_listener' = FALSE
    /\ Goto("U", "idle")
    /\ UNCHANGED <<step, start_time, queue, outputs, last_click, current_keystrokes,
                   last_key_time, now, files, localVars, timers, escaped, pausedMs>>
    /\ UNCHANGED <<count, script, collaboratorVars>>

\* pause_recording
PauseRecording ==
    /\ pc["U"] = "idle"
    /\ recording
    /\ paused' = TRUE
    /\ timer_running' = FALSE
    /\ UNCHANGED <<recording, step, start_time, queue, outputs, last_click,
                   current_keystrokes, last_key_time, session, mouse_listener,
                   kb_listener, now, files, pc, localVars, timers, escaped,
                   pausedMs>>

\* resume_recording
ResumeRecording ==
    /\ pc["U"] = "idle"
    /\ recording
    /\ paused' = FALSE
    /\ start_timer
    /\ UNCHANGED <<recording, step, start_time, queue, outputs, last_click,
                   current_keystrokes, last_key_time, session, mouse_listener,
                   kb_listener, now, files, pc, localVars, escaped, pausedMs>>

\* add_note, lines 174-177: the guard and the load of `self.step += 1`
AddNote(text) ==
    /\ pc["U"] = "idle"
    /\ recording
    /\ ev' = [ev EXCEPT !["U"] = [kind |-> "note", text |-> text]]
    /\ tmp' = [tmp EXCEPT !["U"] = step]
    /\ Goto("U", "n_write")
    /\ UNCHANGED <<recording, paused, step, start_time, queue, outputs, last_click,
                   current_keystrokes, last_key_time, session, timer_running,
                   mouse_listener, kb_listener, now, files, img, txt, sd, timers,
                   escaped, pausedMs>>

\* add_note, lines 177-179: the store of `self.step += 1`, the counters
NoteWrite ==
    /\ pc["U"] = "n_write"
    /\ step' = tmp["U"] + 1
    /\ session' = [session EXCEPT !.statistics.total_steps = @ + 1,
                                  !.statistics.notes = @ + 1]
    /\ Goto("U", "n_build")
    /\ UNCHANGED <<recording, paused, start_time, queue, outputs, last_click,
                   current_keystrokes, last_key_time, timer_running, mouse_listener,
                   kb_listener, now, files, localVars, timers, escaped, pausedMs>>
    /\ UNCHANGED <<count, script, collaboratorVars>>

\* add_note, lines 181-188: step_data
NoteBuild ==
    /\ pc["U"] = "n_build"
    /\ sd' = [sd EXCEPT !["U"] =
                [step_number |-> step, timestamp |-> now, type |-> "note",
                 content |-> ev["U"].text, application |-> get_active_window_title,
                 screenshot |-> NoPath, coordinates |-> Absent,
                 keystrokes |-> Absent, button |-> Absent, group |-> NoGroup]]
    /\ Goto("U", "n_append")
    /\ UNCHANGED <<recording, paused, step, start_time, queue, outputs, last_click,
                   current_keystrokes, last_key_time, session, timer_running,
                   mouse_listener, kb_listener, now, files, tmp, img, txt, ev,
                   timers, escaped, pausedMs>>
    /\ UNCHANGED <<count, script, collaboratorVars>>

\* add_note, lines 190-198
NoteAppend ==
    /\ pc["U"] = "n_append"
    /\ session' = [session EXCEPT !.steps = Append(@, sd["U"])]
    /\ Return("U")
    /\ UNCHANGED <<recording, paused, step, start_time, queue, outputs, last_click,
                   current_keystrokes, last_key_time, timer_running, mouse_listener,
                   kb_listener, now, files, timers, escaped, pausedMs>>
    /\ UNCHANGED <<count, script, collaboratorVars>>

\* process_queue, lines 337-341, and the load of `self.step += 1` in _record_click
\* (line 308): one turn of the loop with the queue not empty
ProcessQueue ==
    /\ pc["U"] \in {"idle", "pq_loop"}
    /\ queue # <<>>
    /\ ev' = [ev EXCEPT !["U"] = Head(queue)]
    /\ queue' = Tail(queue)
    /\ tmp' = [tmp EXCEPT !["U"] = step]
    /\ Goto("U", "c_write")
    /\ UNCHANGED <<recording, paused, step, start_time, outputs, last_click,
                   current_keystrokes, last_key_time, session, timer_running,
                   mouse_listener, kb_listener, now, files, img, txt, sd, timers,
                   escaped, pausedMs>>
    /\ UNCHANGED <<count, script, collaboratorVars>>

\* process_queue, line 337: the queue is empty and the loop ends
ProcessQueueDone ==
    /\ pc["U"] = "pq_loop"
    /\ queue = <<>>
    /\ Goto("U", "idle")
    /\ UNCHANGED <<recording, paused, step, start_time, queue, outputs, last_click,
                   current_keystrokes, last_key_time, session, timer_running,
                   mouse_listener, kb_listener, now, files, localVars, timers,
                   escaped, pausedMs>>
    /\ UNCHANGED <<count, script, collaboratorVars>>

\* _record_click, lines 308-312 and _capture_and_highlight, line 405: the store of
\* `self.step += 1`, the counters, and ImageGrab.grab(), which may raise
ClickWrite(fails) ==
    /\ pc["U"] = "c_write"
    /\ step' = tmp["U"] + 1
    /\ session' = [session EXCEPT !.statistics.total_steps = @ + 1,
                                  !.statistics.clicks = @ + 1]
    /\ IF fails
       THEN Raise("U")
       ELSE Goto("U", "c_save") /\ UNCHANGED <<localVars, escaped>>
    /\ UNCHANGED <<recording, paused, start_time, queue, outputs, last_click,
                   current_keystrokes, last_key_time, timer_running, mouse_listener,
                   kb_listener, now, files, timers, pausedMs>>
    /\ count' = IF fails THEN [count EXCEPT !.fails = @ + 1] ELSE count
    /\ UNCHANGED <<script, collaboratorVars>>

\* _capture_and_highlight, lines 406-425, for thread t: the path is made of self.step
\* as it is when the image is saved
CaptureSave(t, next) ==
    /\ img' = [img EXCEPT ![t] = PathOf(step)]
    /\ files' = files \cup {PathOf(step)}
    /\ outputs' = Append(outputs, PathOf(step))
    /\ Goto(t, next)
    /\ UNCHANGED <<recording, paused, step, start_time, queue, last_click,
                   current_keystrokes, last_key_time, session, timer_running,
                   mouse_listener, kb_listener, now, tmp, txt, sd, ev, timers,
                   escaped, pausedMs>>
    /\ UNCHANGED <<count, script, collaboratorVars>>

ClickSave ==
    /\ pc["U"] = "c_save"
    /\ CaptureSave("U", "c_build")

\* _record_click, lines 314-323: step_data
ClickBuild ==
    /\ pc["U"] = "c_build"
    /\ sd' = [sd EXCEPT !["U"] =
                [step_number |-> step, timestamp |-> now, type |-> "click",
                 content |-> ClickContent(ev["U"].x, ev["U"].y, ev["U"].button),
                 application |-> get_active_window_title,
                 screenshot |-> img["U"], coordinates |-> <<ev["U"].x, ev["U"].y>>,
                 keystrokes |-> Absent, button |-> ev["U"].button,
                 group |-> ev["U"].group]]
    /\ Goto("U", "c_append")
    /\ UNCHANGED <<recording, paused, step, start_time, queue, outputs, last_click,
                   current_keystrokes, last_key_time, session, timer_running,
                   mouse_listener, kb_listener, now, files, tmp, img, txt, ev,
                   timers, escaped, pausedMs>>
    /\ UNCHANGED <<count, script, collaboratorVars>>

\* session.steps.append and what follows it, for thread t
AppendStep(t) ==
    session' = [session EXCEPT
                  !.steps = Append(@, sd[t]),
                  !.screenshots = Append(@, sd[t].screenshot),
                  !.statistics.applications = @ \cup {sd[t].application}]

\* _record_click, lines 325-333; process_queue then runs its loop again
ClickAppend ==
    /\ pc["U"] = "c_append"
    /\ AppendStep("U")
    /\ Goto("U", "pq_loop")
    /\ ClearLocals("U")
    /\ UNCHANGED <<recording, paused, step, start_time, queue, outputs, last_click,
                   current_keystrokes, last_key_time, timer_running, mouse_listener,
                   kb_listener, now, files, timers, escaped, pausedMs>>
    /\ UNCHANGED <<count, script, collaboratorVars>>

(***************************************************************************)
(* _record_keystroke_group, run by thread t: the mouse listener (from      *)
(* _on_click), the keyboard listener (from _on_key_release) or the UI      *)
(* thread (from stop_recording).                                           *)
(***************************************************************************)
\* line 273
FlushCheck(t) ==
    /\ pc[t] = "f_check"
    /\ Goto(t, IF current_keystrokes = <<>> THEN AfterFlush(t) ELSE "f_load")
    /\ UNCHANGED <<recording, paused, step, start_time, queue, outputs, last_click,
                   current_keystrokes, last_key_time, session, timer_running,
                   mouse_listener, kb_listener, now, files, localVars, timers,
                   escaped, pausedMs>>
    /\ UNCHANGED <<count, script, collaboratorVars>>

\* line 276, the load
FlushLoad(t) ==
    /\ pc[t] = "f_load"
    /\ tmp' = [tmp EXCEPT ![t] = step]
    /\ Goto(t, "f_write")
    /\ UNCHANGED <<recording, paused, step, start_time, queue, outputs, last_click,
                   current_keystrokes, last_key_time, session, timer_running,
                   mouse_listener, kb_listener, now, files, img, txt, sd, ev,
                   timers, escaped, pausedMs>>
    /\ UNCHANGED <<count, script, collaboratorVars>>

\* lines 276-281 and _capture_and_highlight, line 405: the store, the counters,
\* keystroke_text, and ImageGrab.grab(), which may raise
FlushWrite(t, fails) ==
    /\ pc[t] = "f_write"
    /\ step' = tmp[t] + 1
    /\ session' = [session EXCEPT
                     !.statistics.total_steps = @ + 1,
                     !.statistics.keystrokes = @ + Len(current_keystrokes)]
    /\ IF fails
       THEN Raise(t)
       ELSE /\ txt' = [txt EXCEPT ![t] = keystrokes_to_text(current_keystrokes)]
            /\ Goto(t, "f_save")
            /\ UNCHANGED <<tmp, img, sd, ev, escaped>>
    /\ count' = IF fails THEN [count EXCEPT !.fails = @ + 1] ELSE count
    /\ UNCHANGED <<script, collaboratorVars>>
    /\ UNCHANGED <<recording, paused, start_time, queue, outputs, last_click,
                   current_keystrokes, last_key_time, timer_running, mouse_listener,
                   kb_listener, now, files, timers, pausedMs>>

FlushSave(t) ==
    /\ pc[t] = "f_save"
    /\ CaptureSave(t, "f_build")

\* lines 283-292: step_data
FlushBuild(t) ==
    /\ pc[t] = "f_build"
    /\ sd' = [sd EXCEPT ![t] =
                [step_number |-> step, timestamp |-> now, type |-> "keystroke",
                 content |-> txt[t], application |-> get_active_window_title,
                 screenshot |-> img[t], coordinates |-> last_click,
                 keystrokes |-> current_keystrokes, button |-> Absent,
                 group |-> NoGroup]]
    /\ Goto(t, "f_append")
    /\ UNCHANGED <<recording, paused, step, start_time, queue, outputs, last_click,
                   current_keystrokes, last_key_time, session, timer_running,
                   mouse_listener, kb_listener, now, files, tmp, img, txt, ev,
                   timers, escaped, pausedMs>>
    /\ UNCHANGED <<count, script, collaboratorVars>>

\* lines 294-302; a click being handled remembers the group it has just recorded
FlushAppend(t) ==
    /\ pc[t] = "f_append"
    /\ AppendStep(t)
    /\ ev' = IF t = "M"
             THEN [ev EXCEPT ![t].group =
                     [sess |-> session.id, idx |-> Len(session.steps) + 1,
                      num |-> sd[t].step_number]]
             ELSE ev
    /\ Goto(t, "f_clear")
    /\ UNCHANGED <<recording, paused, step, start_time, queue, outputs, last_click,
                   current_keystrokes, last_key_time, timer_running, mouse_listener,
                   kb_listener, now, files, tmp, img, txt, sd, timers, escaped,
                   pausedMs>>
    /\ UNCHANGED <<count, script, collaboratorVars>>

\* line 304
FlushClear(t) ==
    /\ pc[t] = "f_clear"
    /\ current_keystrokes' = <<>>
    /\ Goto(t, AfterFlush(t))
    /\ tmp' = [tmp EXCEPT ![t] = 0]
    /\ img' = [img EXCEPT ![t] = NoPath]
    /\ txt' = [txt EXCEPT ![t] = <<>>]
    /\ sd'  = [sd EXCEPT ![t] = NoStep]
    /\ UNCHANGED <<recording, paused, step, start_time, queue, outputs, last_click,
                   last_key_time, session, timer_running, mouse_listener,
                   kb_listener, now, files, ev, timers, escaped, pausedMs>>
    /\ UNCHANGED <<count, script, collaboratorVars>>

(***************************************************************************)
(* The mouse listener thread: _on_click.                                   *)
(***************************************************************************)
\* lines 249-251; a release, or a press while not recording or paused, does nothing
OnClick(pos, button) ==
    /\ pc["M"] = "idle"
    /\ mouse_listener
    /\ recording /\ ~paused
    /\ ev' = [ev EXCEPT !["M"] = [kind |-> "click", x |-> pos[1], y |-> pos[2],
                                  button |-> button, group |-> NoGroup]]
    /\ Goto("M", IF current_keystrokes # <<>> THEN "f_check" ELSE "m_put")
    /\ UNCHANGED <<recording, paused, step, start_time, queue, outputs, last_click,
                   current_keystrokes, last_key_time, session, timer_running,
                   mouse_listener, kb_listener, now, files, tmp, img, txt, sd,
                   timers, escaped, pausedMs>>

\* lines 254-255
ClickPut ==
    /\ pc["M"] = "m_put"
    /\ last_click' = <<ev["M"].x, ev["M"].y>>
    /\ queue' = Append(queue, ev["M"])
    /\ Return("M")
    /\ UNCHANGED <<recording, paused, step, start_time, outputs, current_keystrokes,
                   last_key_time, session, timer_running, mouse_listener,
                   kb_listener, now, files, timers, escaped, pausedMs>>
    /\ UNCHANGED <<count, script, collaboratorVars>>

(***************************************************************************)
(* The keyboard listener thread: _on_key_release.                          *)
(***************************************************************************)
\* lines 259-266; the callback remembers the group that was open when the key came
OnKeyRelease(key) ==
    /\ pc["K"] = "idle"
    /\ kb_listener
    /\ recording /\ ~paused
    /\ ev' = [ev EXCEPT !["K"] = [kind |-> "key", key |-> key, current_time |-> now,
                                  held |-> current_keystrokes]]
    /\ Goto("K", IF /\ current_keystrokes # <<>>
                    /\ now - last_key_time > key_grouping_delay
                 THEN "f_check" ELSE "k_append")
    /\ UNCHANGED <<recording, paused, step, start_time, queue, outputs, last_click,
                   current_keystrokes, last_key_time, session, timer_running,
                   mouse_listener, kb_listener, now, files, tmp, img, txt, sd,
                   timers, escaped, pausedMs>>

\* lines 268-269
KeyAppend ==
    /\ pc["K"] = "k_append"
    /\ current_keystrokes' = Append(current_keystrokes, ev["K"].key)
    /\ last_key_time' = ev["K"].current_time
    /\ Return("K")
    /\ UNCHANGED <<recording, paused, step, start_time, queue, outputs, last_click,
                   session, timer_running, mouse_listener, kb_listener, now, files,
                   timers, escaped, pausedMs>>
    /\ UNCHANGED <<count, script, collaboratorVars>>

(***************************************************************************)
(* A timer thread: _timer_loop.                                            *)
(***************************************************************************)
\* lines 241-243: the loop test and, when it holds, the duration read when not
\* paused (a paused thread sleeps and tests again); the thread ends when it fails
TimerRun ==
    /\ timers.run > 0
    /\ ~(timer_running /\ recording) \/ ~paused
    /\ timers' = IF timer_running /\ recording
                 THEN [run |-> timers.run - 1,
                       write |-> timers.write (+) SetToBag({get_recording_duration})]
                 ELSE [timers EXCEPT !.run = @ - 1]
    /\ UNCHANGED <<recording, paused, step, start_time, queue, outputs, last_click,
                   current_keystrokes, last_key_time, session, timer_running,
                   mouse_listener, kb_listener, now, files, pc, localVars, escaped,
                   pausedMs>>
    /\ UNCHANGED <<count, script, collaboratorVars>>

\* lines 244-245: the store of the duration read, then the sleep
TimerWrite(duration) ==
    /\ BagIn(duration, timers.write)
    /\ session' = [session EXCEPT !.statistics.recording_duration = duration]
    /\ timers' = [run |-> timers.run + 1,
                  write |-> timers.write (-) SetToBag({duration})]
    /\ UNCHANGED <<recording, paused, step, start_time, queue, outputs, last_click,
                   current_keystrokes, last_key_time, timer_running, mouse_listener,
                   kb_listener, now, files, pc, localVars, escaped, pausedMs>>
    /\ UNCHANGED <<count, script, collaboratorVars>>

\* the clock advances
Tick ==
    /\ now' = now + ClockStep
    /\ pausedMs' = IF recording /\ paused THEN pausedMs + ClockStep ELSE pausedMs
    /\ UNCHANGED <<recording, paused, step, start_time, queue, outputs, last_click,
                   current_keystrokes, last_key_time, session, timer_running,
                   mouse_listener, kb_listener, files, pc, localVars, timers,
                   escaped>>

(***************************************************************************)
(* Early returns: the call changes nothing.                                *)
(***************************************************************************)
\* start_recording without its guard: the counter is reset under the active session
StartRefusedResets ==
    /\ pc["U"] = "idle"
    /\ recording
    /\ step' = 0
    /\ UNCHANGED <<recording, paused, start_time, queue, outputs, last_click,
                   current_keystrokes, last_key_time, session, timer_running,
                   mouse_listener, kb_listener, now, files, pc, localVars, timers,
                   escaped, pausedMs>>

\* _on_key_release without `or self.paused` in its guard: the key is buffered
KeyDroppedBuffered ==
    /\ pc["K"] = "idle"
    /\ kb_listener
    /\ ~(recording /\ ~paused)
    /\ current_keystrokes' = Append(current_keystrokes, NthKey(count.keys + 1))
    /\ UNCHANGED <<recording, paused, step, start_time, queue, outputs, last_click,
                   last_key_time, session, timer_running, mouse_listener,
                   kb_listener, now, files, pc, localVars, timers, escaped,
                   pausedMs>>

\* start_recording, lines 80-81: return False
StartRefused == pc["U"] = "idle" /\ recording /\ UNCHANGED recorderVars

\* stop_recording, lines 120-121: return False
StopRefused == pc["U"] = "idle" /\ ~recording /\ UNCHANGED recorderVars

\* pause_recording, lines 156-157: return False
PauseRefused == pc["U"] = "idle" /\ ~recording /\ UNCHANGED recorderVars

\* resume_recording, lines 165-166: return False
ResumeRefused == pc["U"] = "idle" /\ ~recording /\ UNCHANGED recorderVars

\* add_note, lines 174-175: return False
NoteRefused == pc["U"] = "idle" /\ ~recording /\ UNCHANGED recorderVars

\* _on_click, line 249: a press while not recording or while paused
ClickDropped ==
    /\ pc["M"] = "idle"
    /\ mouse_listener
    /\ ~(recording /\ ~paused)
    /\ UNCHANGED recorderVars

\* _on_key_release, lines 259-260
KeyDropped ==
    /\ pc["K"] = "idle"
    /\ kb_listener
    /\ ~(recording /\ ~paused)
    /\ UNCHANGED recorderVars

(***************************************************************************)
(* Steps of a thread that is inside a call: they take no input.            *)
(***************************************************************************)
UICallStep ==
    \/ StartRecording2 \/ StopRecording2
    \/ NoteWrite \/ NoteBuild \/ NoteAppend
    \/ ProcessQueueDone
    \/ ClickWrite(FALSE)
    \/ ClickSave \/ ClickBuild \/ ClickAppend

FlushStep(t) ==
    \/ FlushCheck(t) \/ FlushLoad(t)
    \/ FlushWrite(t, FALSE)
    \/ FlushSave(t) \/ FlushBuild(t) \/ FlushAppend(t) \/ FlushClear(t)

ListenerCallStep == ClickPut \/ KeyAppend

TimerStep ==
    \/ TimerRun
    \/ \E duration \in BagToSet(timers.write) : TimerWrite(duration)

\* a capture that raises, in whichever thread is about to capture
CaptureFails ==
    \/ ClickWrite(TRUE)
    \/ \E t \in Threads : FlushWrite(t, TRUE)

(***************************************************************************)
(* Spec: the recorder with its inputs free.  The UI thread calls the       *)
(* public methods in any order, the listeners deliver clicks and key       *)
(* releases at any time, a capture may raise, and the clock advances at    *)
(* any time.  The timer threads are started but not scheduled: all they    *)
(* write is statistics['recording_duration'] (see TimeSpec, LiveSpec).     *)
(***************************************************************************)
\* one more input of kind c, while the run may still be given inputs
Input(c, max) ==
    /\ count.inputs < MaxInputs
    /\ count[c] < max
    /\ count' = [count EXCEPT ![c] = @ + 1, !.inputs = @ + 1]
    /\ UNCHANGED <<script, collaboratorVars>>

NoInput == UNCHANGED <<count, script, collaboratorVars>>

\* one more pause; the keystroke group that is open when it is called is remembered
PauseInput ==
    /\ count.inputs < MaxInputs
    /\ count.pauses < MaxPauses
    /\ count' = [count EXCEPT !.pauses = @ + 1, !.inputs = @ + 1,
                              !.atPause = current_keystrokes]
    /\ UNCHANGED <<script, collaboratorVars>>

\* one more start; the clicks and keys delivered before it are remembered
StartInput ==
    /\ count.inputs < MaxInputs
    /\ count.starts < MaxSessions
    /\ count' = [count EXCEPT !.starts = @ + 1, !.inputs = @ + 1,
                              !.atStart = [clicks |-> count.clicks,
                                           keys |-> count.keys]]
    /\ UNCHANGED <<script, collaboratorVars>>

UICall ==
    \/ StartRecording /\ StartInput
    \/ StopRecording /\ NoInput
    \/ PauseRecording /\ PauseInput
    \/ ResumeRecording /\ Input("resumes", MaxResumes)
    \/ \E text \in NoteTexts : AddNote(text) /\ Input("notes", MaxNotes)
    \/ ProcessQueue

UICallRefused ==
    \/ StartRefused /\ Input("restarts", MaxRestarts)
    \/ StopRefused /\ Input("refused", MaxRefused)
    \/ PauseRefused /\ Input("refused", MaxRefused)
    \/ ResumeRefused /\ Input("refused", MaxRefused)
    \/ NoteRefused /\ Input("refused", MaxRefused)

ListenerCall ==
    \/ \E button \in Buttons :
           OnClick(NthClick(count.clicks + 1), button) /\ Input("clicks", MaxClicks)
    \/ OnKeyRelease(NthKey(count.keys + 1)) /\ Input("keys", MaxKeys)
    \/ ClickDropped /\ Input("clicks", MaxClicks)
    \/ KeyDropped /\ Input("keys", MaxKeys)

ListenerFails ==
    \E which \in {"mouse", "keyboard"} :
        StartFails(which) /\ Input("startfails", MaxStartFails)

ClockAdvances ==
    /\ now < MaxTicks * ClockStep
    /\ Tick
    /\ NoInput

Next ==
    \/ UICall
    \/ UICallRefused
    \/ ListenerCall
    \/ ListenerFails
    \/ UICallStep
    \/ \E t \in Threads : FlushStep(t)
    \/ ListenerCallStep
    \/ count.fails < MaxFails /\ CaptureFails
    \/ ClockAdvances

Spec == Init /\ [][Next]_vars

(***************************************************************************)
(* ScenarioSpec: the inputs are those of a script, in its order, each      *)
(* given once the listener callback of the one before has returned; the    *)
(* UI thread runs process_queue whenever it likes.  No capture raises.     *)
(***************************************************************************)
Scenario ==
    << [kind |-> "start"],
       [kind |-> "click", pos |-> <<100, 100>>, button |-> "Button.left"],
       [kind |-> "key", key |-> CharKey("a")],
       [kind |-> "key", key |-> CharKey("b")],
       [kind |-> "wait"],
       [kind |-> "click", pos |-> <<200, 200>>, button |-> "Button.left"] >>

ScenarioInit == InitRecorder /\ script = Scenario /\ InitCollaborators

ScriptedInput ==
    /\ script # <<>>
    /\ pc["M"] = "idle" /\ pc["K"] = "idle"
    /\ LET e == Head(script)
       IN  \/ e.kind = "start" /\ StartRecording
           \/ e.kind = "click" /\ OnClick(e.pos, e.button)
           \/ e.kind = "key" /\ OnKeyRelease(e.key)
           \/ e.kind = "wait" /\ Tick
    /\ script' = Tail(script)
    /\ UNCHANGED <<count, collaboratorVars>>

ProcessQueueStep ==
    \/ ProcessQueue \/ ProcessQueueDone
    \/ ClickWrite(FALSE)
    \/ ClickSave \/ ClickBuild \/ ClickAppend

ScenarioNext ==
    \/ ScriptedInput
    \/ StartRecording2
    \/ ProcessQueueStep
    \/ \E t \in {"M", "K"} : FlushStep(t)
    \/ ListenerCallStep

ScenarioSpec == ScenarioInit /\ [][ScenarioNext]_vars

(***************************************************************************)
(* TimeSpec: the duration.  The UI thread starts, pauses, resumes and      *)
(* stops; the timer threads run; the clock advances.  There are no clicks  *)
(* and no keys.                                                            *)
(***************************************************************************)
TimeNext ==
    \/ StartRecording /\ Input("starts", MaxSessions)
    \/ StartRecording2
    \/ StopRecording /\ NoInput
    \/ StopRecording2
    \/ PauseRecording /\ Input("pauses", MaxPauses)
    \/ ResumeRecording /\ Input("resumes", MaxResumes)
    \/ TimerStep
    \/ now < TimeTicks * ClockStep /\ Tick /\ NoInput

TimeSpec == Init /\ [][TimeNext]_vars

(***************************************************************************)
(* LiveSpec: what happens to an open keystroke group when time passes.     *)
(* Keys arrive, the UI thread may stop the recording, the timer threads    *)
(* run, the clock advances.  Every thread that can take a step eventually  *)
(* takes one (the threads are scheduled by the operating system); nothing  *)
(* is assumed about inputs.                                                *)
(***************************************************************************)
KeyboardStep == KeyAppend \/ FlushStep("K")
StopStep == FlushStep("U") \/ StopRecording2

LiveNext ==
    \/ StartRecording /\ Input("starts", LiveSessions)
    \/ StartRecording2
    \/ OnKeyRelease(NthKey(count.keys + 1)) /\ Input("keys", MaxKeys)
    \/ KeyboardStep
    \/ StopRecording /\ NoInput
    \/ StopStep
    \/ TimerStep
    \/ now < MaxTicks * ClockStep /\ Tick /\ NoInput

LiveSpec ==
    /\ Init
    /\ [][LiveNext]_vars
    /\ WF_vars(StartRecording2)
    /\ WF_vars(KeyboardStep)
    /\ WF_vars(StopStep)
    /\ WF_vars(TimerStep)

(***************************************************************************)
(* TextSpec: how a keystroke group is rendered.  A recording is active and *)
(* a group of any keys of the keyboard has been typed within the grouping  *)
(* delay; the UI thread stops the recording, which records the group as a  *)
(* step whose content is _keystrokes_to_text of the group.                 *)
(***************************************************************************)
KeyGroups == UNION {[1..n -> AllKeys] : n \in 1..MaxGroup}

\* the recorder after start_recording and the key releases of group g
TextInit ==
    \E g \in KeyGroups :
        /\ recording = TRUE
        /\ paused = FALSE
        /\ step = 0
        /\ start_time = 0
        /\ queue = <<>>
        /\ outputs = <<>>
        /\ last_click = <<100, 100>>
        /\ current_keystrokes = g
        /\ last_key_time = 0
        /\ session = [RecordingSession(1) EXCEPT !.start_time = 0]
        /\ timer_running = TRUE
        /\ mouse_listener = TRUE
        /\ kb_listener = TRUE
        /\ now = 0
        /\ files = {}
        /\ pc = [t \in Threads |-> "idle"]
        /\ tmp = [t \in Threads |-> 0]
        /\ img = [t \in Threads |-> NoPath]
        /\ txt = [t \in Threads |-> <<>>]
        /\ sd = [t \in Threads |-> NoStep]
        /\ ev = [t \in Threads |-> NoEvent]
        /\ timers = [run |-> 1, write |-> EmptyBag]
        /\ escaped = {}
        /\ count = [inputs |-> 1 + Len(g), starts |-> 1, clicks |-> 0,
                    keys |-> Len(g), notes |-> 0, pauses |-> 0, resumes |-> 0,
                    fails |-> 0, startfails |-> 0, refused |-> 0, restarts |-> 0,
                    events |-> 0, exports |-> 0, stats |-> 0, edits |-> 0,
                    marks |-> 0, lookups |-> 0, versions |-> 0, undos |-> 0,
                    redos |-> 0, saves |-> 0, loads |-> 0, stops |-> 0, waits |-> 0,
                    toggles |-> 0,
                    atPause |-> <<>>,
                atStart |-> [clicks |-> 0, keys |-> 0]]
        /\ pausedMs = 0
        /\ script = <<>>
        /\ InitCollaborators

TextNext ==
    \/ StopRecording /\ NoInput
    \/ StopStep

TextSpec == TextInit /\ [][TextNext]_vars

(***************************************************************************)
(* CaptureSpec: the capture policy (code/smart_capture.py).  should_capture *)
(* is called with any event type and any window title, in any order.       *)
(***************************************************************************)
EventTypes   == {"click", "keystroke", "idle"}
WindowTitles == {"Unknown App", "Editor", "Browser"}

\* should_capture: what it returns, and last_window_title when it has returned
should_capture(self, event_type, current_window_title) ==
    IF event_type \in {"click", "keystroke"}
    THEN [ret |-> TRUE, last_window_title |-> self.last_window_title]
    ELSE IF self.last_window_title # current_window_title
    THEN [ret |-> TRUE, last_window_title |-> current_window_title]
    ELSE [ret |-> FALSE, last_window_title |-> self.last_window_title]

\* a call of should_capture; the call before it is remembered
ShouldCapture(event_type, current_window_title) ==
    /\ LET r == should_capture(smart_capture, event_type, current_window_title)
       IN  smart_capture' =
             [smart_capture EXCEPT
                !.last_window_title = r.last_window_title,
                !.asked = [kind |-> event_type, title |-> current_window_title],
                !.returned = r.ret,
                !.before = IF smart_capture.asked = NoEvent THEN NoTitle
                           ELSE smart_capture.asked.title]
    /\ UNCHANGED <<recorderVars, exceptCapture>>

\* one more call of kind c to an object beside the recorder
Call(c, max) ==
    /\ count[c] < max
    /\ count' = [count EXCEPT ![c] = @ + 1]
    /\ UNCHANGED script

CaptureNext ==
    \E event_type \in EventTypes, title \in WindowTitles :
        ShouldCapture(event_type, title) /\ Call("events", MaxEvents)

CaptureSpec == Init /\ [][CaptureNext]_vars

(***************************************************************************)
(* SessionNext: a recording that fills the session, for the objects that   *)
(* read it.  The UI thread starts and stops, adds notes and runs           *)
(* process_queue; the mouse listener delivers clicks.                      *)
(***************************************************************************)
SessionNext ==
    \/ StartRecording /\ Input("starts", MaxSessions)
    \/ StartRecording2
    \/ \E button \in Buttons :
           OnClick(NthClick(count.clicks + 1), button) /\ Input("clicks", MaxClicks)
    \/ ClickPut
    \/ ProcessQueueStep
    \/ \E text \in NoteTexts : AddNote(text) /\ Input("notes", MaxNotes)
    \/ NoteWrite \/ NoteBuild \/ NoteAppend
    \/ StopRecording /\ NoInput
    \/ StopRecording2

(***************************************************************************)
(* ExportSpec: the exporters (code/exporters.py).  The UI thread calls     *)
(* export_all of the ExportManager it made for the session when the        *)
(* recording was started; each exporter writes its file or fails to.       *)
(***************************************************************************)
\* datetime.isoformat(): a string
isoformat(t) == [iso |-> t]

JsonNull == [null |-> TRUE]

\* list(a_set): its elements in some order
list(S) == CHOOSE q \in [1..Cardinality(S) -> S] : \A x \in S : \E i \in DOMAIN q : q[i] = x

\* JsonExporter._generate_json: the statistics and every step are copied (lines 497,
\* 506) before the applications and the timestamp are converted (lines 502, 507)
generate_json(sess, exported_at) ==
    [metadata |-> [version |-> "2.0", created_by |-> "Enhanced Step Recorder",
                   exported_at |-> isoformat(exported_at),
                   start_time |-> IF sess.start_time # NoTime
                                  THEN isoformat(sess.start_time) ELSE JsonNull,
                   end_time |-> IF sess.end_time # NoTime
                                THEN isoformat(sess.end_time) ELSE JsonNull],
     statistics |-> [sess.statistics EXCEPT !.applications = list(@)],
     steps |-> [i \in 1..Len(sess.steps) |->
                  [sess.steps[i] EXCEPT !.timestamp = isoformat(@)]]]

\* the loop over self.session.steps of DocxExporter.export (lines 50-79), of
\* HtmlExporter._generate_html (lines 313-345) and of
\* MarkdownExporter._generate_markdown (lines 438-464): each step is read with
\* step.get and nothing is stored in it.  The session when the loop has ended.
\* A loop that drops the reference of a screenshot it has embedded:
steps_read_and_released(sess) ==
    [sess EXCEPT !.steps = [i \in 1..Len(@) |-> [@[i] EXCEPT !.screenshot = NoPath]]]

steps_read(sess) == sess

\* exporter.export(output_path) of the exporter of format f: what it returns and the
\* session when it has returned.  Every exporter catches what its body raises and
\* returns False; written says whether its body, which ends by writing the file,
\* got to its end.
exporter_export(f, sess, written) ==
    [success |-> written,
     session |-> IF f = "json" THEN sess ELSE steps_read(sess)]

\* the for loop of export_all, line 529: the exporter that is tried next
\* a loop that gives up when an exporter has failed:
next_exporter_on_success(at, success) ==
    IF success THEN at + 1 ELSE Len(Formats) + 1

next_exporter(at, success) == at + 1

\* export_all, lines 527-529: the UI thread enters the loop
ExportAll ==
    /\ pc["U"] = "idle"
    /\ session.id > 0
    /\ export' = [NoExport EXCEPT !.at = 1]
    /\ Goto("U", "export")
    /\ UNCHANGED <<recording, paused, step, start_time, queue, outputs, last_click,
                   current_keystrokes, last_key_time, session, timer_running,
                   mouse_listener, kb_listener, now, files, localVars, timers,
                   escaped, pausedMs>>
    /\ UNCHANGED exceptExport

\* export_all, lines 530-540: one turn of the loop
ExportOne(written) ==
    /\ pc["U"] = "export"
    /\ export.at \in 1..Len(Formats)
    /\ LET f == Formats[export.at]
           r == exporter_export(f, session, written)
       IN  /\ session' = r.session
           /\ export' = [export EXCEPT
                           !.results = [g \in DOMAIN @ \cup {f} |->
                                          IF g = f THEN r.success ELSE @[g]],
                           !.outcomes = Append(@, written),
                           !.at = next_exporter(@, r.success),
                           !.json_data = IF f = "json" /\ written
                                         THEN generate_json(session, now) ELSE @]
    /\ UNCHANGED <<recording, paused, step, start_time, queue, outputs, last_click,
                   current_keystrokes, last_key_time, timer_running,
                   mouse_listener, kb_listener, now, files, pc, localVars, timers,
                   escaped, pausedMs>>
    /\ UNCHANGED <<count, script, exceptExport>>

\* export_all, line 542: return results
ExportReturn ==
    /\ pc["U"] = "export"
    /\ export.at > Len(Formats)
    /\ export' = [export EXCEPT !.returned = TRUE, !.at = 0]
    /\ Goto("U", "idle")
    /\ UNCHANGED <<recording, paused, step, start_time, queue, outputs, last_click,
                   current_keystrokes, last_key_time, session, timer_running,
                   mouse_listener, kb_listener, now, files, localVars, timers,
                   escaped, pausedMs>>
    /\ UNCHANGED <<count, script, exceptExport>>

ExportStep == (\E written \in BOOLEAN : ExportOne(written)) \/ ExportReturn

ExportNext ==
    \/ SessionNext
    \/ ExportAll /\ Call("exports", MaxExports)
    \/ ExportStep

ExportSpec == Init /\ [][ExportNext]_vars

(***************************************************************************)
(* StatsSpec: get_statistics and its caller.  The UI thread (its           *)
(* update_stats_display) asks for the statistics at any time between its   *)
(* other calls and may change the dictionary it is given; the recording    *)
(* goes on.  A Python dictionary or list is an object: stats.dict and      *)
(* stats.applications say whether the caller's dictionary and its          *)
(* applications are objects of their own ("new") or the ones the session   *)
(* holds ("session"); stats.items are the items of a dictionary of its own.*)
(***************************************************************************)
\* line 212, self.session.statistics.copy(): a new dictionary whose values are those
\* of the session's, the applications set among them
statistics_copy(sess) ==
    [dict |-> "new", applications |-> "session", returned |-> FALSE,
     items |-> [clicks |-> sess.statistics.clicks,
                keystrokes |-> sess.statistics.keystrokes,
                notes |-> sess.statistics.notes,
                applications |-> <<>>,
                total_steps |-> sess.statistics.total_steps,
                recording_duration |-> sess.statistics.recording_duration,
                current_duration |-> 0]]

\* a get_statistics that hands out the session's dictionary:
returned_statistics_live(local, sess, duration) ==
    [local EXCEPT !.dict = "session", !.applications = "session", !.returned = TRUE]

\* lines 213-215: the applications become a new list, current_duration is added,
\* and the dictionary is returned
returned_statistics(local, sess, duration) ==
    [local EXCEPT !.applications = "new",
                  !.items.applications = list(sess.statistics.applications),
                  !.items.current_duration = duration,
                  !.returned = TRUE]

\* get_statistics, line 212
GetStatistics ==
    /\ pc["U"] = "idle"
    /\ stats' = statistics_copy(session)
    /\ Goto("U", "stats2")
    /\ UNCHANGED <<recording, paused, step, start_time, queue, outputs, last_click,
                   current_keystrokes, last_key_time, session, timer_running,
                   mouse_listener, kb_listener, now, files, localVars, timers,
                   escaped, pausedMs>>
    /\ UNCHANGED exceptStats

\* get_statistics, lines 213-215
GetStatistics2 ==
    /\ pc["U"] = "stats2"
    /\ stats' = returned_statistics(stats, session, get_recording_duration)
    /\ Goto("U", "idle")
    /\ UNCHANGED <<recording, paused, step, start_time, queue, outputs, last_click,
                   current_keystrokes, last_key_time, session, timer_running,
                   mouse_listener, kb_listener, now, files, localVars, timers,
                   escaped, pausedMs>>
    /\ UNCHANGED <<count, script, exceptStats>>

\* the caller stores into the dictionary it was given: stats['clicks'] += 1
ModifyReturned ==
    /\ stats.returned
    /\ IF stats.dict = "new"
       THEN /\ stats' = [stats EXCEPT !.items.clicks = @ + 1]
            /\ UNCHANGED session
       ELSE /\ session' = [session EXCEPT !.statistics.clicks = @ + 1]
            /\ UNCHANGED stats
    /\ UNCHANGED <<recording, paused, step, start_time, queue, outputs, last_click,
                   current_keystrokes, last_key_time, timer_running,
                   mouse_listener, kb_listener, now, files, pc, localVars, timers,
                   escaped, pausedMs>>
    /\ UNCHANGED exceptStats

\* the caller adds to the applications it was given
ModifyApplications ==
    /\ stats.returned
    /\ IF stats.applications = "new"
       THEN /\ stats' = [stats EXCEPT !.items.applications = Append(@, "Editor")]
            /\ UNCHANGED session
       ELSE /\ session' = [session EXCEPT !.statistics.applications = @ \cup {"Editor"}]
            /\ UNCHANGED stats
    /\ UNCHANGED <<recording, paused, step, start_time, queue, outputs, last_click,
                   current_keystrokes, last_key_time, timer_running,
                   mouse_listener, kb_listener, now, files, pc, localVars, timers,
                   escaped, pausedMs>>
    /\ UNCHANGED exceptStats

StatsNext ==
    \/ SessionNext
    \/ GetStatistics /\ Call("stats", MaxStats)
    \/ GetStatistics2
    \/ ModifyReturned /\ Call("edits", MaxEdits)
    \/ ModifyApplications /\ Call("edits", MaxEdits)
    \/ ClockAdvances

StatsSpec == Init /\ [][StatsNext]_vars

(***************************************************************************)
(* WorkflowSpec: bookmarks, comments and versions                          *)
(* (code/workflow_collaboration.py).  The UI thread makes a WorkflowManager *)
(* for the session of the recording and calls its methods between its      *)
(* other calls, with step numbers that steps have and that no step has.    *)
(***************************************************************************)
recorderButSession ==
    <<recording, paused, step, start_time, queue, outputs, last_click,
      current_keystrokes, last_key_time, timer_running, mouse_listener,
      kb_listener, now, files, pc, tmp, img, txt, sd, ev, timers, escaped,
      pausedMs>>

StepInputs == 1..MaxStepNumber

\* [x for x in items if x.step_number == step_number]
WithStepNumber(items, n) ==
    LET RECURSIVE keep(_)
        keep(q) == IF q = <<>> THEN <<>>
                   ELSE (IF q[1].step_number = n THEN <<q[1]>> ELSE <<>>)
                            \o keep(Tail(q))
    IN  keep(items)

\* the index of the first step whose step_number is n, 0 when there is none
FirstStep(steps, n) ==
    IF \E i \in 1..Len(steps) : steps[i].step_number = n
    THEN CHOOSE i \in 1..Len(steps) :
            /\ steps[i].step_number = n
            /\ \A j \in 1..(i - 1) : steps[j].step_number # n
    ELSE 0

\* max(versions, key=lambda v: v.timestamp): the first of the latest
LastVersion(versions) ==
    versions[CHOOSE i \in 1..Len(versions) :
                /\ \A j \in 1..Len(versions) :
                      versions[j].timestamp <= versions[i].timestamp
                /\ \A j \in 1..(i - 1) :
                      versions[j].timestamp < versions[i].timestamp]

\* Each method: what it returns, the manager and the session when it has returned.
add_bookmark(self, sess, step_number, t) ==
    [ret |-> TRUE, session |-> sess,
     self |-> [self EXCEPT !.bookmarks =
                 Append(@, [step_number |-> step_number, title |-> "title",
                            description |-> "description", timestamp |-> t,
                            tags |-> <<>>])]]

get_bookmarks(self, sess, step_number) ==
    [ret |-> WithStepNumber(self.bookmarks, step_number), session |-> sess,
     self |-> self]

add_comment(self, sess, step_number, t) ==
    [ret |-> TRUE, session |-> sess,
     self |-> [self EXCEPT !.comments =
                 Append(@, [step_number |-> step_number, author |-> "author",
                            text |-> "text", timestamp |-> t,
                            is_resolved |-> FALSE])]]

get_comments(self, sess, step_number) ==
    [ret |-> WithStepNumber(self.comments, step_number), session |-> sess,
     self |-> self]

save_step_version(self, sess, step_number, t) ==
    LET i == FirstStep(sess.steps, step_number)
    IN  IF i = 0
        THEN [ret |-> FALSE, session |-> sess, self |-> self]
        ELSE [ret |-> TRUE, session |-> sess,
              self |-> [self EXCEPT !.step_versions =
                          Append(@, [step_number |-> step_number,
                                     version |-> Len(WithStepNumber(@, step_number)) + 1,
                                     data |-> sess.steps[i], timestamp |-> t,
                                     author |-> "System"])]]

undo_step(self, sess, step_number) ==
    LET versions == WithStepNumber(self.step_versions, step_number)
        i == FirstStep(sess.steps, step_number)
    IN  IF versions = <<>> \/ i = 0
        THEN [ret |-> FALSE, session |-> sess, self |-> self]
        ELSE [ret |-> TRUE,
              session |-> [sess EXCEPT !.steps[i] = LastVersion(versions).data],
              self |-> [self EXCEPT !.redo_stack = Append(@, sess.steps[i])]]

redo_step(self, sess, step_number) ==
    LET i == FirstStep(sess.steps, step_number)
    IN  IF self.redo_stack = <<>>
        THEN [ret |-> FALSE, session |-> sess, self |-> self]
        ELSE LET redo_data == self.redo_stack[Len(self.redo_stack)]
                 popped == [self EXCEPT !.redo_stack = SubSeq(@, 1, Len(@) - 1)]
             IN  IF i = 0
                 THEN [ret |-> FALSE, session |-> sess, self |-> popped]
                 ELSE [ret |-> TRUE, self |-> popped,
                       session |-> [sess EXCEPT !.steps[i] = redo_data]]

\* WorkflowManager.__init__, lines 39-48, at time t; the files that self, the
\* manager before it, has written stay on disk
WorkflowManager(self, sess, t) ==
    [NoWorkflow EXCEPT !.session = sess.id,
                       !.last_auto_save = t,
                       !.autosaves = self.autosaves]

\* WorkflowManager(self.recorder.get_session_data())
NewWorkflowManager ==
    /\ pc["U"] = "idle"
    /\ session.id > 0
    /\ workflow.session # session.id
    /\ workflow' = WorkflowManager(workflow, session, now)
    /\ UNCHANGED <<session, recorderButSession, exceptWorkflow>>
    /\ UNCHANGED <<count, script>>

\* the UI thread calls method op with step_number n, and r is what the method does;
\* the call is remembered
WorkflowCall(op, n, r) ==
    /\ pc["U"] = "idle"
    /\ workflow.session = session.id
    /\ session.id > 0
    /\ workflow' = [r.self EXCEPT
                      !.calls = @ + 1,
                      !.asked = [op |-> op, step_number |-> n,
                                 known |-> FirstStep(session.steps, n) # 0,
                                 kept |-> r.session.steps = session.steps],
                      !.returned = r.ret]
    /\ session' = r.session
    /\ UNCHANGED <<recorderButSession, exceptWorkflow>>

AddBookmark(n)     == WorkflowCall("add_bookmark", n, add_bookmark(workflow, session, n, now))
GetBookmarks(n)    == WorkflowCall("get_bookmarks", n, get_bookmarks(workflow, session, n))
AddComment(n)      == WorkflowCall("add_comment", n, add_comment(workflow, session, n, now))
GetComments(n)     == WorkflowCall("get_comments", n, get_comments(workflow, session, n))
SaveStepVersion(n) == WorkflowCall("save_step_version", n,
                                   save_step_version(workflow, session, n, now))
UndoStep(n)        == WorkflowCall("undo_step", n, undo_step(workflow, session, n))
RedoStep(n)        == WorkflowCall("redo_step", n, redo_step(workflow, session, n))

Annotate ==
    \E n \in StepInputs :
        \/ AddBookmark(n) /\ Call("marks", MaxMarks)
        \/ AddComment(n) /\ Call("marks", MaxMarks)
        \/ GetBookmarks(n) /\ Call("lookups", MaxLookups)
        \/ GetComments(n) /\ Call("lookups", MaxLookups)
        \/ SaveStepVersion(n) /\ Call("versions", MaxVersions)
        \/ UndoStep(n) /\ Call("undos", MaxUndos)
        \/ RedoStep(n) /\ Call("redos", MaxUndos)

WorkflowNext ==
    \/ SessionNext
    \/ NewWorkflowManager
    \/ Annotate

WorkflowSpec == Init /\ [][WorkflowNext]_vars

(***************************************************************************)
(* AutoSaveSpec: auto_save and load_auto_save of the WorkflowManager.      *)
(* The files are JSON: a datetime is written as a string, None as null, a  *)
(* set and a tuple as a list, and the reader turns back what it knows.     *)
(* session.metadata is a constant dictionary and is left out.              *)
(***************************************************************************)
\* str(a_datetime), which json.dump's default=str writes for a datetime that
\* nothing converted
str(t) == [str |-> t]

\* datetime.fromisoformat: reads both isoformat() and str() of a datetime
fromisoformat(s) == IF "iso" \in DOMAIN s THEN s.iso ELSE s.str

\* json.dump and json.load of an optional string: null or the string
JsonString(v) == IF v = NoPath THEN JsonNull ELSE [s |-> v]
FromJsonString(j) == IF j = JsonNull THEN NoPath ELSE j.s

\* json.dump of a tuple or list: a list, which json.load gives back as a list
JsonList(v) == IF v = Absent THEN v ELSE [list |-> v]

Map(f(_), q) == [i \in 1..Len(q) |-> f(q[i])]

\* a step dictionary in the file: step.copy() with the timestamp as isoformat()
\* (lines 188, 202-203)
JsonStep(d) ==
    [d EXCEPT !.timestamp = isoformat(@), !.screenshot = JsonString(@),
              !.coordinates = JsonList(@)]

\* asdict() of a Bookmark, Comment or StepVersion: its datetime is written by
\* default=str (lines 193-195, 206), and so is the one inside a version's data
JsonDataclass(b) ==
    IF "data" \in DOMAIN b
    THEN [b EXCEPT !.timestamp = str(@),
                   !.data = [@ EXCEPT !.timestamp = str(@),
                                      !.screenshot = JsonString(@),
                                      !.coordinates = JsonList(@)]]
    ELSE [b EXCEPT !.timestamp = str(@)]

\* session_data of auto_save, lines 183-198 and 201-203
auto_save_data(self, sess, t) ==
    [session |->
        [start_time |-> IF sess.start_time # NoTime
                        THEN isoformat(sess.start_time) ELSE JsonNull,
         end_time |-> IF sess.end_time # NoTime
                      THEN isoformat(sess.end_time) ELSE JsonNull,
         statistics |-> [sess.statistics EXCEPT !.applications = list(@)],
         steps |-> Map(JsonStep, sess.steps),
         screenshots |-> Map(JsonString, sess.screenshots)],
     workflow |->
        [bookmarks |-> Map(JsonDataclass, self.bookmarks),
         comments |-> Map(JsonDataclass, self.comments),
         step_versions |-> Map(JsonDataclass, self.step_versions)],
     auto_save_time |-> isoformat(t)]

\* set(a_list)
set(q) == {q[i] : i \in DOMAIN q}

\* a step dictionary read by load_auto_save: the timestamp is parsed (line 238),
\* everything else is what json.load made of it
LoadedStep(j) ==
    [j EXCEPT !.timestamp = fromisoformat(@), !.screenshot = FromJsonString(@)]

\* Bookmark(**bookmark_data) and the like, with the timestamp parsed (lines
\* 247-248, 252-253, 257-258); a version's data stays as json.load made it
LoadedDataclass(j) ==
    IF "data" \in DOMAIN j
    THEN [j EXCEPT !.timestamp = fromisoformat(@),
                   !.data = [@ EXCEPT !.screenshot = FromJsonString(@)]]
    ELSE [j EXCEPT !.timestamp = fromisoformat(@)]

\* self.session.steps = [] and the loop that appends, lines 236-239
\* a loader that appends to the steps the session has:
loaded_steps_appended(steps, loaded) == steps \o loaded

loaded_steps(steps, loaded) == loaded

\* load_auto_save of a file holding data, lines 222-260: the session afterwards
load_session(sess, data) ==
    [sess EXCEPT
       !.start_time = IF data.session.start_time # JsonNull
                      THEN fromisoformat(data.session.start_time) ELSE @,
       !.end_time = IF data.session.end_time # JsonNull
                    THEN fromisoformat(data.session.end_time) ELSE @,
       !.statistics = [data.session.statistics EXCEPT !.applications = set(@)],
       !.steps = loaded_steps(@, Map(LoadedStep, data.session.steps)),
       !.screenshots = Map(FromJsonString, data.session.screenshots)]

\* auto_save, lines 174-214, at time t: the manager after the call.  The file is
\* written when auto_save_interval seconds have passed since the last one; the
\* file remembers what it was written of.
auto_save(self, sess, t) ==
    IF t - self.last_auto_save >= auto_save_interval * 1000
    THEN [self EXCEPT
            !.autosaves = Append(@, [data |-> auto_save_data(self, sess, t),
                                     of |-> [session |-> sess,
                                             bookmarks |-> self.bookmarks,
                                             comments |-> self.comments]]),
            !.last_auto_save = t,
            !.calls = @ + 1,
            !.asked = [op |-> "auto_save", file |-> Len(self.autosaves) + 1],
            !.returned = TRUE]
    ELSE [self EXCEPT !.calls = @ + 1,
                      !.asked = [op |-> "auto_save", file |-> 0],
                      !.returned = FALSE]

\* the UI thread calls auto_save
AutoSave ==
    /\ pc["U"] = "idle"
    /\ workflow.session = session.id
    /\ session.id > 0
    /\ workflow' = auto_save(workflow, session, now)
    /\ UNCHANGED <<session, recorderButSession, exceptWorkflow>>

\* load_auto_save, lines 216-264, of the k-th file written; k = 0 is a path where
\* no file is, and open raises
LoadAutoSave(k) ==
    /\ pc["U"] = "idle"
    /\ workflow.session = session.id
    /\ session.id > 0
    /\ IF k = 0
       THEN /\ workflow' = [workflow EXCEPT
                              !.calls = @ + 1,
                              !.asked = [op |-> "load_auto_save", file |-> 0],
                              !.returned = FALSE]
            /\ UNCHANGED session
       ELSE LET data == workflow.autosaves[k].data
            IN  /\ session' = load_session(session, data)
                /\ workflow' =
                     [workflow EXCEPT
                        !.bookmarks = Map(LoadedDataclass, data.workflow.bookmarks),
                        !.comments = Map(LoadedDataclass, data.workflow.comments),
                        !.step_versions = Map(LoadedDataclass, data.workflow.step_versions),
                        !.calls = @ + 1,
                        !.asked = [op |-> "load_auto_save", file |-> k],
                        !.returned = TRUE]
    /\ UNCHANGED <<recorderButSession, exceptWorkflow>>

\* auto_save_interval seconds pass
Wait ==
    /\ now' = now + auto_save_interval * 1000
    /\ pausedMs' = IF recording /\ paused
                   THEN pausedMs + auto_save_interval * 1000 ELSE pausedMs
    /\ UNCHANGED <<recording, paused, step, start_time, queue, outputs, last_click,
                   current_keystrokes, last_key_time, session, timer_running,
                   mouse_listener, kb_listener, files, pc, localVars, timers,
                   escaped, collaboratorVars>>

AutoSaveNext ==
    \/ SessionNext
    \/ NewWorkflowManager
    \/ \E n \in StepInputs :
          \/ AddBookmark(n) /\ Call("marks", MaxMarks)
          \/ AddComment(n) /\ Call("marks", MaxMarks)
          \/ SaveStepVersion(n) /\ Call("versions", MaxVersions)
    \/ Wait /\ Call("waits", MaxSaves)
    \/ AutoSave /\ Call("saves", MaxSaves)
    \/ \E k \in 0..Len(workflow.autosaves) : LoadAutoSave(k) /\ Call("loads", MaxSaves)

AutoSaveSpec == Init /\ [][AutoSaveNext]_vars

(***************************************************************************)
(* AppSpec: the first recorder, StepRecorderApp (code/step_recorder.py).   *)
(* Its methods run on the Tk event loop (thread U) and in the callbacks of *)
(* the two pynput listeners (threads M and K); master.after hands a call   *)
(* to the event loop.  _record_keystroke_group reads the group, captures   *)
(* the screen and only then empties the group, and any thread may run in   *)
(* between.                                                                *)
(***************************************************************************)
recorderButNow ==
    <<recording, paused, step, start_time, queue, outputs, last_click,
      current_keystrokes, last_key_time, session, timer_running, mouse_listener,
      kb_listener, files, pc, localVars, timers, escaped, pausedMs>>

AppFrame == UNCHANGED <<now, recorderButNow, exceptApp>>

\* a step inside a method: no input is used up
AppStep == AppFrame /\ UNCHANGED <<count, script>>

Esc == SpecialKey("esc")

\* what one release delivers: the next key of the run, or ESC
AppKeys == {NthKey(count.keys + 1), Esc}

\* master.after(ms, f): f is called by the event loop when ms milliseconds have passed
master_after(scheduled, f, due) == scheduled (+) SetToBag({[f |-> f, due |-> due]})

\* start, lines 289-334; failing: the first listener cannot be started
AppStart(failing) ==
    /\ app.pc["U"] = "idle"
    /\ ~app.recording
    \* the threads of the listeners before have ended
    /\ \A t \in {"M", "K"} : app.pc[t] = "idle"
    /\ app' = [app EXCEPT
                 !.recording = ~failing,
                 !.step = 0,
                 !.queue = <<>>,
                 !.current_keystrokes = <<>>,
                 !.last_key_time = 0,
                 !.doc = <<>>,
                 !.mouse_listener = IF failing THEN @ ELSE TRUE,
                 !.kb_listener = IF failing THEN @ ELSE TRUE,
                 !.listening = IF failing THEN @ ELSE {"M", "K"},
                 !.after = IF failing THEN @
                           ELSE master_after(@, "process_queue", now + 100),
                 !.via = "none",
                 !.stopped = "none",
                 !.esc = [n |-> 0, group |-> <<>>]]
    /\ AppFrame

\* the Stop button: the event loop calls stop
AppStopButton ==
    /\ app.pc["U"] = "idle"
    /\ app' = [app EXCEPT !.pc["U"] = "stop", !.via = "button"]
    /\ AppFrame

\* stop, lines 337-342: the guard, and the test of the open group
AppStop1(t) ==
    /\ app.pc[t] = "stop"
    /\ app' = [app EXCEPT
                 !.ran = @ \cup {t},
                 !.pc[t] = IF ~app.recording THEN "idle"
                           ELSE IF app.current_keystrokes # <<>> THEN "flush_write"
                           ELSE "stop_rest",
                 !.ret[t] = "stop_rest"]
    /\ AppStep

\* stop, lines 344-376: the flag, the listeners, the document
AppStop2(t, written) ==
    /\ app.pc[t] = "stop_rest"
    /\ app' = [app EXCEPT
                 !.recording = FALSE,
                 !.mouse_listener = FALSE,
                 !.kb_listener = FALSE,
                 !.listening = {},
                 !.saved = IF written THEN app.doc ELSE @,
                 !.stopped = app.via,
                 !.pc[t] = "idle"]
    /\ AppStep

\* _record_keystroke_group, lines 431-462: the paragraph of the group, or the
\* simplified one when the capture has raised.  For the keys typed here the
\* _keystrokes_to_text of this class gives what the recorder's gives.
AppFlushWrite(t, fails) ==
    /\ app.pc[t] = "flush_write"
    /\ IF app.current_keystrokes = <<>>
       THEN app' = [app EXCEPT !.pc[t] = app.ret[t]]
       ELSE app' = [app EXCEPT
                      !.step = IF fails THEN @ + 2 ELSE @ + 1,
                      !.doc = Append(@, [kind |-> IF fails THEN "simplified" ELSE "typed",
                                         text |-> IF fails THEN <<>>
                                                  ELSE keystrokes_to_text(app.current_keystrokes),
                                         group |-> app.current_keystrokes,
                                         step |-> IF fails THEN app.step + 2
                                                  ELSE app.step + 1]),
                      !.pc[t] = "flush_clear"]
    /\ AppStep

\* _record_keystroke_group, line 465
AppFlushClear(t) ==
    /\ app.pc[t] = "flush_clear"
    /\ app' = [app EXCEPT !.current_keystrokes = <<>>, !.pc[t] = app.ret[t]]
    /\ AppStep

\* add_note, lines 378-384
AppAddNote(note) ==
    /\ app.pc["U"] = "idle"
    /\ app.recording
    /\ app' = [app EXCEPT !.doc = Append(@, [kind |-> "note", text |-> note,
                                              group |-> <<>>])]
    /\ AppFrame

\* _on_click, lines 387-393
AppOnClick(position) ==
    /\ "M" \in app.listening
    /\ app.pc["M"] = "idle"
    /\ app.recording
    /\ app' = [app EXCEPT
                 !.click = [kind |-> "click", position |-> position],
                 !.pc["M"] = IF app.current_keystrokes # <<>> THEN "flush_write"
                             ELSE "click_put",
                 !.ret["M"] = "click_put"]
    /\ AppFrame

\* _on_click, lines 395-396
AppClickPut ==
    /\ app.pc["M"] = "click_put"
    /\ app' = [app EXCEPT !.last_click = app.click.position,
                          !.queue = Append(@, app.click.position),
                          !.click = NoEvent,
                          !.pc["M"] = "idle"]
    /\ AppStep

\* _on_key_release, lines 398-415.  ESC hands stop to the event loop and returns
\* False, which ends the listener; another key may find the group too old.
AppOnKeyRelease(key) ==
    /\ "K" \in app.listening
    /\ app.pc["K"] = "idle"
    /\ app.recording
    /\ IF key = Esc
       THEN app' = [app EXCEPT
                      !.after = master_after(@, "stop", now),
                      !.listening = @ \ {"K"},
                      !.esc = [n |-> @.n + 1, group |-> app.current_keystrokes]]
       ELSE app' = [app EXCEPT
                      !.key = [kind |-> "key", key |-> key, current_time |-> now],
                      !.pc["K"] = IF /\ app.current_keystrokes # <<>>
                                     /\ now - app.last_key_time > key_grouping_delay
                                  THEN "flush_write" ELSE "key_append",
                      !.ret["K"] = "key_append"]
    /\ AppFrame

\* _on_key_release, lines 417-421
AppKeyAppend ==
    /\ app.pc["K"] = "key_append"
    /\ app' = [app EXCEPT
                 !.current_keystrokes = Append(@, app.key.key),
                 !.last_key_time = app.key.current_time,
                 !.after = master_after(@, "schedule_keystroke_recording",
                                        now + key_grouping_delay),
                 !.key = NoEvent,
                 !.pc["K"] = "idle"]
    /\ AppStep

\* a call that is due is taken from what master.after was given
Due(f) ==
    \E cb \in BagToSet(app.after) : cb.f = f /\ cb.due <= now

Taken(f) ==
    LET cb == CHOOSE c \in BagToSet(app.after) : c.f = f /\ c.due <= now
    IN  app.after (-) SetToBag({cb})

\* the event loop calls stop, which _on_key_release scheduled (line 406)
AppRunStop ==
    /\ app.pc["U"] = "idle"
    /\ Due("stop")
    /\ app' = [app EXCEPT !.after = Taken("stop"), !.pc["U"] = "stop", !.via = "after"]
    /\ AppStep

\* _schedule_keystroke_recording, lines 423-427
AppScheduleKeystrokeRecording ==
    /\ app.pc["U"] = "idle"
    /\ Due("schedule_keystroke_recording")
    /\ app' = [app EXCEPT
                 !.after = Taken("schedule_keystroke_recording"),
                 !.pc["U"] = IF /\ app.current_keystrokes # <<>>
                                /\ now - app.last_key_time >= key_grouping_delay
                             THEN "flush_write" ELSE "idle",
                 !.ret["U"] = "idle"]
    /\ AppStep

\* _process_queue, lines 565-573, with _record_click, lines 576-598, for every
\* click of the queue
AppProcessQueue(fails) ==
    /\ app.pc["U"] = "idle"
    /\ Due("process_queue")
    /\ app' = [app EXCEPT
                 !.after = IF app.recording
                           THEN master_after(Taken("process_queue"), "process_queue",
                                             now + 100)
                           ELSE Taken("process_queue"),
                 !.queue = <<>>,
                 !.step = @ + Len(app.queue) * (IF fails THEN 2 ELSE 1),
                 !.doc = @ \o [i \in 1..Len(app.queue) |->
                                 [kind |-> IF fails THEN "simplified" ELSE "click",
                                  text |-> app.queue[i], group |-> <<>>,
                                  step |-> app.step + i * (IF fails THEN 2 ELSE 1)]]]
    /\ AppStep

\* what the event loop does without being asked
AppLoop ==
    \/ AppRunStop
    \/ AppScheduleKeystrokeRecording
    \/ \E fails \in BOOLEAN : AppProcessQueue(fails)
    \/ AppStop1("U")
    \/ \E written \in BOOLEAN : AppStop2("U", written)
    \/ \E fails \in BOOLEAN : AppFlushWrite("U", fails)
    \/ AppFlushClear("U")

\* what the listener threads do once a callback has begun
AppListeners ==
    \/ \E t \in {"M", "K"} :
          \/ \E fails \in BOOLEAN : AppFlushWrite(t, fails)
          \/ AppFlushClear(t)
    \/ AppClickPut
    \/ AppKeyAppend

AppNext ==
    \/ \E failing \in BOOLEAN : AppStart(failing) /\ Call("starts", LiveSessions)
    \/ AppStopButton /\ Call("stops", LiveSessions)
    \/ \E note \in NoteTexts : AppAddNote(note) /\ Call("notes", MaxNotes)
    \/ AppOnClick(NthClick(count.clicks + 1)) /\ Call("clicks", MaxClicks)
    \/ \E key \in AppKeys : AppOnKeyRelease(key) /\ Call("keys", MaxKeys)
    \/ AppLoop
    \/ AppListeners
    \/ ClockAdvances

\* The event loop runs while the window is open, and calls what is due.
AppSpec == Init /\ [][AppNext]_vars /\ WF_vars(AppLoop)

(***************************************************************************)
(* UISpec: EnhancedStepRecorder (code/step_recorder_enhanced.py), the      *)
(* window that owns the recorder.  Its buttons run start_recording,        *)
(* toggle_pause, stop_recording and export_all_formats on the Tk thread,   *)
(* which also runs _process_queue; the listeners deliver clicks and key    *)
(* releases.  save_path is set, no listener fails to start and no capture  *)
(* raises; the clock stands still, so that every key joins the open group. *)
(***************************************************************************)
recorderButFiles ==
    <<recording, paused, step, start_time, queue, outputs, last_click,
      current_keystrokes, last_key_time, timer_running, mouse_listener,
      kb_listener, now, pc, tmp, img, txt, sd, ev, timers, escaped, pausedMs>>

\* one more press of a button of the window
Press(c, max) ==
    /\ count.inputs < MaxInputs
    /\ count[c] < max
    /\ count' = [count EXCEPT ![c] = @ + 1, !.inputs = @ + 1]
    /\ UNCHANGED <<script, exceptUI>>

\* the screenshots that the steps of sess name and that are not among the files fs
MissingScreenshots(sess, fs) ==
    {sess.steps[i].screenshot : i \in {j \in 1..Len(sess.steps) :
         /\ "screenshot" \in DOMAIN sess.steps[j]
         /\ sess.steps[j].screenshot # NoPath}} \ fs

\* cleanup_screenshots, lines 1051-1080: the files of session.screenshots that
\* exist are removed, and when one was, the list is emptied
cleanup_screenshots(sess, fs) ==
    LET deleted == set(sess.screenshots) \cap fs
    IN  [files |-> fs \ deleted,
         session |-> IF deleted # {} THEN [sess EXCEPT !.screenshots = <<>>]
                     ELSE sess]

\* cleanup_screenshots as it runs after an export that wrote a file (lines 878-879
\* and 1041-1044)
cleanup_after(written, sess, fs) ==
    IF written THEN cleanup_screenshots(sess, fs)
    ELSE [files |-> fs, session |-> sess]

\* start_recording, lines 758-768: the call of the recorder's start_recording
UIStartRecording ==
    /\ ui.pc = "idle"
    /\ ~ui.recording
    /\ StartRecording
    /\ ui' = [ui EXCEPT !.pc = "start"]
    /\ UNCHANGED workflow

\* start_recording, lines 769-783, after the recorder has returned True; before
\* that the recorder has called on_recording_state_changed(True) (lines 617-620)
UIStartRecording2 ==
    /\ ui.pc = "start"
    /\ pc["U"] = "idle"
    /\ recording
    /\ workflow' = WorkflowManager(workflow, session, now)
    /\ ui' = [ui EXCEPT !.recording = TRUE,
                        !.export_manager = session.id,
                        !.timer_running = TRUE,
                        !.after = TRUE,
                        !.pc = "idle"]
    /\ UNCHANGED <<recorderVars, count, script, exceptUI>>

\* toggle_pause, lines 806-819
TogglePause ==
    /\ ui.pc = "idle"
    /\ ui.recording
    /\ IF ui.paused THEN ResumeRecording ELSE PauseRecording
    /\ ui' = [ui EXCEPT !.timer_running = ui.paused, !.paused = ~ui.paused]
    /\ UNCHANGED workflow

\* stop_recording, lines 788-794: the call of the recorder's stop_recording
UIStopRecording ==
    /\ ui.pc = "idle"
    /\ ui.recording
    /\ StopRecording
    /\ ui' = [ui EXCEPT !.pc = "stop"]
    /\ UNCHANGED <<workflow, count, script, exceptUI>>

\* stop_recording, lines 796-804, after the recorder has returned and has called
\* on_recording_state_changed(False): stop_timer, auto_save, and save_recording
\* (lines 1034-1049), whose docx export writes its file or fails to
UIStopRecording2(written) ==
    /\ ui.pc = "stop"
    /\ pc["U"] = "idle"
    /\ workflow' = auto_save(workflow, session, now)
    /\ session' = cleanup_after(written, session, files).session
    /\ files' = cleanup_after(written, session, files).files
    /\ ui' = [ui EXCEPT !.recording = FALSE,
                        !.timer_running = FALSE,
                        !.pc = "idle",
                        !.exported = [op |-> "save", written |-> written,
                                      missing |-> MissingScreenshots(session, files)]]
    /\ UNCHANGED <<recorderButFiles, count, script, exceptUI>>

\* export_all_formats, lines 860-882; results is what export_all returns
ExportAllFormats(results) ==
    /\ ui.pc = "idle"
    /\ pc["U"] = "idle"
    /\ ui.export_manager # 0
    /\ LET success_count == Cardinality({f \in DOMAIN results : results[f]})
       IN  /\ session' = cleanup_after(success_count > 0, session, files).session
           /\ files' = cleanup_after(success_count > 0, session, files).files
           /\ ui' = [ui EXCEPT
                       !.exported = [op |-> "export_all",
                                     written |-> success_count > 0,
                                     missing |-> MissingScreenshots(session, files)]]
    /\ UNCHANGED <<recorderButFiles, workflow>>

\* _process_queue, lines 968-970, when master.after runs it
UIProcessQueue ==
    /\ pc["U"] = "idle" => ui.after /\ ui.pc = "idle"
    /\ ProcessQueue

\* _process_queue, lines 971-972, with no recording active: it is not scheduled
\* again
UIProcessQueueEnds ==
    /\ ui.after
    /\ ui.pc = "idle"
    /\ ~ui.recording
    /\ pc["U"] = "idle"
    /\ queue = <<>>
    /\ ui' = [ui EXCEPT !.after = FALSE]
    /\ UNCHANGED <<recorderVars, count, script, exceptUI, workflow>>

\* the steps of the Tk thread inside a call of the recorder
UIThreadStep ==
    \/ StartRecording2 \/ StopRecording2
    \/ ProcessQueueDone
    \/ ClickWrite(FALSE)
    \/ ClickSave \/ ClickBuild \/ ClickAppend

UINext ==
    \/ UIStartRecording /\ Press("starts", MaxSessions)
    \/ UIStartRecording2
    \/ TogglePause /\ Press("toggles", MaxToggles)
    \/ UIStopRecording
    \/ \E written \in BOOLEAN : UIStopRecording2(written)
    \/ \E results \in [{Formats[i] : i \in 1..Len(Formats)} -> BOOLEAN] :
           ExportAllFormats(results) /\ Press("exports", MaxExports)
    \/ UIProcessQueue
    \/ UIProcessQueueEnds
    \/ UIThreadStep
    \/ \E t \in Threads : FlushStep(t)
    \/ ListenerCall
    \/ ListenerCallStep

UISpec == Init /\ [][UINext]_vars

(***************************************************************************)
(* The properties of the recorder.                                         *)
(***************************************************************************)
Steps == session.steps
StepNumbers == {Steps[i].step_number : i \in 1..Len(Steps)}
ScreenshotSteps == {i \in 1..Len(Steps) : Steps[i].type \in {"click", "keystroke"}}
Capturing == {t \in Threads : pc[t] \in {"f_save", "c_save"}}
Quiescent == \A t \in Threads : pc[t] = "idle"
\* one recording session so far, in which every capture has succeeded
OneSession == count.starts = 1 /\ count.fails = 0

(***************************************************************************)
(* C1.  After any sequence and interleaving of clicks, key releases,       *)
(* notes, pause/resume and stop within one session, the step_numbers of    *)
(* the steps in session.steps are exactly 1..N, N the number of steps.     *)
(***************************************************************************)
C1_StepNumbersAre1toN ==
    (OneSession /\ Quiescent) => StepNumbers = 1..Len(Steps)

(***************************************************************************)
(* C3.  A click that arrived while a keystroke group was open: the group   *)
(* recorded for it is a step of the same session.steps, earlier in the     *)
(* list than the click's step, and with a smaller step_number.             *)
(***************************************************************************)
C3_GroupBeforeItsClick ==
    \A i \in 1..Len(Steps) :
        (Steps[i].type = "click" /\ Steps[i].group # NoGroup) =>
            /\ Steps[i].group.sess = session.id
            /\ Steps[i].group.idx < i
            /\ Steps[Steps[i].group.idx].type = "keystroke"
            /\ Steps[i].group.num < Steps[i].step_number

(***************************************************************************)
(* C4.  The step_numbers of session.steps are strictly increasing in list  *)
(* order, and the list of a session only grows by appending.               *)
(***************************************************************************)
StrictlyIncreasing ==
    \A i \in 1..Len(Steps) : \A j \in 1..Len(Steps) :
        i < j => Steps[i].step_number < Steps[j].step_number

AppendOnly ==
    session'.id = session.id =>
        /\ Len(session'.steps) >= Len(Steps)
        /\ SubSeq(session'.steps, 1, Len(Steps)) = Steps

C4_IncreasingAndAppendOnly ==
    [](OneSession => StrictlyIncreasing) /\ [][AppendOnly]_vars

(***************************************************************************)
(* C8.  A capture that fails is not fatal: no exception leaves             *)
(* process_queue or a listener callback, and once the recorder is at rest  *)
(* the session holds a step without a screenshot for the capture that      *)
(* failed.                                                                 *)
(***************************************************************************)
C8_CaptureFailureIsNotFatal ==
    /\ escaped = {}
    /\ (count.fails > 0 /\ count.starts = 1 /\ Quiescent) =>
           \E i \in ScreenshotSteps : Steps[i].screenshot = NoPath

(***************************************************************************)
(* C9.  Every click or keystroke step whose capture succeeded references   *)
(* a screenshot file of its own: the file exists and no other step of the  *)
(* session references it.                                                  *)
(***************************************************************************)
C9_OneScreenshotPerStep ==
    OneSession =>
        \A i \in ScreenshotSteps :
            Steps[i].screenshot # NoPath =>
                /\ Steps[i].screenshot \in files
                /\ \A j \in ScreenshotSteps :
                       j # i => Steps[j].screenshot # Steps[i].screenshot

(***************************************************************************)
(* C10.  At most one screenshot capture is in flight at any time.          *)
(***************************************************************************)
C10_OneCaptureInFlight == Cardinality(Capturing) <= 1

(***************************************************************************)
(* C2.  Scenario: start, click at (100,100), 'a', 'b', wait past the       *)
(* grouping delay, click at (200,200), drain the queue.  The session then  *)
(* holds exactly Click(100,100) as step 1, the group "ab" as step 2 and    *)
(* Click(200,200) as step 3, in this order.                                *)
(***************************************************************************)
ScenarioDone == script = <<>> /\ Quiescent /\ queue = <<>>

IsClickStep(s, n, x, y) ==
    /\ s.type = "click"
    /\ s.step_number = n
    /\ s.coordinates = <<x, y>>
    /\ s.content = ClickContent(x, y, "Button.left")

IsGroupStep(s, n, text) ==
    /\ s.type = "keystroke"
    /\ s.step_number = n
    /\ s.content = text

C2_ScenarioThreeSteps ==
    ScenarioDone =>
        /\ Len(Steps) = 3
        /\ IsClickStep(Steps[1], 1, 100, 100)
        /\ IsGroupStep(Steps[2], 2, <<"a", "b">>)
        /\ IsClickStep(Steps[3], 3, 200, 200)

(***************************************************************************)
(* C5.  While recording, an open keystroke group that has had no key for   *)
(* key_grouping_delay is eventually recorded as a step, unless a further   *)
(* input (a key, or a stop) intervenes.                                    *)
(***************************************************************************)
GroupExpired(n) ==
    /\ recording /\ ~paused
    /\ pc["K"] = "idle" /\ pc["U"] = "idle"
    /\ current_keystrokes # <<>>
    /\ now - last_key_time >= key_grouping_delay
    /\ count.keys = n

GroupRecorded(n) ==
    \/ current_keystrokes = <<>>
    \/ count.keys # n
    \/ pc["U"] # "idle"
    \/ ~recording

C5_ExpiredGroupIsFlushed == \A n \in 1..MaxKeys : GroupExpired(n) ~> GroupRecorded(n)

(***************************************************************************)
(* C6.  The duration reported after stop excludes the paused intervals:    *)
(* for start at s, pause at t1, resume at t2, stop at t3 it is             *)
(* (t1 - s) + (t3 - t2), the time from start to stop less the time spent   *)
(* paused.                                                                 *)
(***************************************************************************)
StopReturns == pc["U"] = "stop2" /\ pc'["U"] = "idle"

C6_DurationExcludesPause ==
    [][(StopReturns /\ ~paused) =>
          /\ session'.statistics.recording_duration
                = (now - session.start_time) - pausedMs
          /\ get_recording_duration' = (now - session.start_time) - pausedMs]_vars

(***************************************************************************)
(* C7.  While paused, and after stop, the current duration is frozen: two  *)
(* reads of get_recording_duration return the same value, whatever the     *)
(* clock did in between.                                                   *)
(***************************************************************************)
Frozen == start_time # NoTime /\ pc["U"] = "idle" /\ (paused \/ ~recording)

C7_DurationFrozen ==
    [][(Frozen /\ Frozen') => get_recording_duration' = get_recording_duration]_vars

(***************************************************************************)
(* C11.  The step counter, session.steps and the counters of               *)
(* session.statistics are changed by one thread only, the one that         *)
(* consumes the queue: no step of a listener callback changes them.        *)
(***************************************************************************)
Counters ==
    <<session.statistics.total_steps, session.statistics.clicks,
      session.statistics.keystrokes, session.statistics.notes>>

ListenerActs == pc'["M"] # pc["M"] \/ pc'["K"] # pc["K"]

C11_OnlyTheConsumerMutates ==
    [][ListenerActs => UNCHANGED <<step, session.steps, Counters>>]_vars

(***************************************************************************)
(* C12.  A click or key release that arrives while the recorder is paused  *)
(* is dropped: nothing of the recorder changes, so the event is neither    *)
(* queued nor buffered and cannot contribute to a step later.              *)
(***************************************************************************)
EventArrives == count'.keys # count.keys \/ count'.clicks # count.clicks

C12_PausedEventsAreDropped ==
    [][(recording /\ paused /\ EventArrives) => UNCHANGED recorderVars]_vars

\* a first session, paused, to which a key has been delivered: nothing is buffered
\* and nothing was recorded, so the key arrived during the pause
C12_KeyArrivedWhilePaused ==
    /\ session.id = 1 /\ recording /\ paused
    /\ Quiescent
    /\ count.keys >= 1 /\ count.clicks = 0 /\ count.fails = 0
    /\ current_keystrokes = <<>>
    /\ Steps = <<>>

(***************************************************************************)
(* C13.  pause_recording leaves an open keystroke group as it is and       *)
(* appends no step; the keys that were buffered when it was called are     *)
(* recorded later as one keystroke step: once the session has been         *)
(* stopped, exactly one step holds them.                                   *)
(***************************************************************************)
PauseActs == recording /\ ~paused /\ paused'

IsPrefix(p, q) == Len(p) <= Len(q) /\ SubSeq(q, 1, Len(p)) = p

StepsHolding(keys) ==
    {i \in 1..Len(Steps) :
        /\ Steps[i].type = "keystroke"
        /\ IsPrefix(keys, Steps[i].keystrokes)}

StoppedAtRest == ~recording /\ session.end_time # NoTime /\ Quiescent

PausedGroupRecordedOnce ==
    (session.id = 1 /\ StoppedAtRest /\ count.atPause # <<>>) =>
        Cardinality(StepsHolding(count.atPause)) = 1

C13_PauseKeepsTheGroup ==
    /\ [][PauseActs => UNCHANGED <<current_keystrokes, session, queue, step>>]_vars
    /\ []PausedGroupRecordedOnce

(***************************************************************************)
(* C14.  add_note while recording first records an open keystroke group    *)
(* (its first act is the flush of the group), and the step it appends is   *)
(* one step of type note with the text given and no screenshot.            *)
(***************************************************************************)
NoteCalled == count'.notes # count.notes

NoteReturns == pc["U"] = "n_append" /\ pc'["U"] = "idle"

C14_NoteFlushesTheGroup ==
    [][/\ (NoteCalled /\ current_keystrokes # <<>>) => pc'["U"] = "f_check"
       /\ NoteReturns =>
            /\ Len(session'.steps) = Len(session.steps) + 1
            /\ session'.steps[Len(session'.steps)].type = "note"
            /\ session'.steps[Len(session'.steps)].content = ev["U"].text
            /\ session'.steps[Len(session'.steps)].screenshot = NoPath]_vars

(***************************************************************************)
(* C15.  stop_recording on an active session ends with the open group      *)
(* recorded, end_time set, recording and paused False, and it returns      *)
(* (no exception); with no recording active it changes nothing.            *)
(***************************************************************************)
StopLabels ==
    {"f_check", "f_load", "f_write", "f_save", "f_build", "f_append", "f_clear",
     "stop2"}

StopEnds == pc["U"] \in StopLabels /\ pc'["U"] = "idle"

C15_StopFinishesTheSession ==
    [][/\ StopEnds =>
            /\ ~recording' /\ ~paused'
            /\ session'.end_time = now
            /\ escaped' = escaped
       /\ (~recording /\ count'.refused # count.refused) => UNCHANGED recorderVars]_vars

(***************************************************************************)
(* C16.  Once stop_recording has returned, and until the next              *)
(* start_recording, the steps and the counters of the stopped session do   *)
(* not change and nothing is put on the queue.                             *)
(***************************************************************************)
Stopped == ~recording /\ session.end_time # NoTime

C16_NothingAfterStop ==
    [][(Stopped /\ Stopped') =>
          /\ session'.steps = session.steps
          /\ Counters' = Counters
          /\ Len(queue') <= Len(queue)]_vars

(***************************************************************************)
(* C17.  start_recording called while a recording is active changes        *)
(* nothing: same session, same steps, same counter, same start_time and    *)
(* paused flag, and no exception.                                          *)
(***************************************************************************)
C17_StartWhileActiveIsRefused ==
    [][count'.restarts # count.restarts => UNCHANGED recorderVars]_vars

C17_StartedTwice ==
    /\ count.restarts = 1
    /\ recording /\ session.id = 1
    /\ step >= 1 /\ Len(Steps) >= 1

(***************************************************************************)
(* C18.  When a listener fails to start, start_recording leaves the        *)
(* recorder idle: recording is False, no listener runs, no timer thread    *)
(* was started, and no step is recorded until a later start.               *)
(***************************************************************************)
StartFailed == count'.startfails # count.startfails

NeverStarted == ~recording /\ session.end_time = NoTime

C18_FailedStartLeavesIdle ==
    [][/\ StartFailed =>
            /\ ~recording'
            /\ ~mouse_listener' /\ ~kb_listener'
            /\ ~timer_running' /\ timers' = timers
       /\ (NeverStarted /\ NeverStarted' /\ ~StartFailed) =>
            session'.steps = session.steps]_vars

(***************************************************************************)
(* C19.  When start_recording returns having started a recording, the      *)
(* step counter is 0, the session is a new one with no steps and zeroed    *)
(* statistics, and no keystroke group is open.                             *)
(***************************************************************************)
StartReturns == pc["U"] = "start2" /\ pc'["U"] = "idle" /\ recording'

C19_StartIsFresh ==
    [][StartReturns =>
          /\ step' = 0
          /\ session'.id # session.id
          /\ session'.steps = <<>>
          /\ session'.statistics = NewStatistics
          /\ current_keystrokes' = <<>>]_vars

(***************************************************************************)
(* C20.  Whenever no operation is in progress, the statistics agree with   *)
(* the steps: total_steps is the number of steps, clicks the number of     *)
(* click steps, notes the number of note steps.                            *)
(***************************************************************************)
NumberOf(type) == Cardinality({i \in 1..Len(Steps) : Steps[i].type = type})

C20_StatisticsAgreeWithSteps ==
    Quiescent =>
        /\ session.statistics.total_steps = Len(Steps)
        /\ session.statistics.clicks = NumberOf("click")
        /\ session.statistics.notes = NumberOf("note")


(***************************************************************************)
(* C28: a keystroke group of printable character keys is rendered as the   *)
(* characters themselves, in the order typed, and each space key gives     *)
(* exactly one space character: the keys 'a', space, 'b' give "a b".       *)
(***************************************************************************)
IsTyped(key) == key.k = "char" /\ key.v \in PrintableChars \cup {" "}

Typed(keys) == [i \in 1..Len(keys) |-> keys[i].v]

C28_PrintableKeysRenderLiterally ==
    \A i \in 1..Len(Steps) :
        (/\ Steps[i].type = "keystroke"
         /\ \A j \in 1..Len(Steps[i].keystrokes) : IsTyped(Steps[i].keystrokes[j]))
        => Steps[i].content = Typed(Steps[i].keystrokes)

(***************************************************************************)
(* C29: a keystroke group made only of named non-printable keys (Enter,    *)
(* Tab, Backspace, ...) is rendered as "Pressed: " followed by the names   *)
(* joined by ", "; a group with neither printable characters nor           *)
(* recognized named keys is rendered as "Special keys pressed".            *)
(***************************************************************************)
IsNamed(key) == key.k = "special" /\ key_to_name(key) \in NamedSpecial

NamesOf(keys) == [i \in 1..Len(keys) |-> key_to_name(keys[i])]

C29_NamedKeysRenderAsPressed ==
    \A i \in 1..Len(Steps) :
        Steps[i].type = "keystroke" =>
            LET keys == Steps[i].keystrokes
            IN  /\ (\A j \in 1..Len(keys) : IsNamed(keys[j]))
                    => Steps[i].content = S_Pressed \o Join(NamesOf(keys), S_CommaSpace)
                /\ (\A j \in 1..Len(keys) : ~IsNamed(keys[j]) /\ ~IsTyped(keys[j]))
                    => Steps[i].content = S_SpecialKeysPressed


(***************************************************************************)
(* C22: key releases whose gap does not exceed key_grouping_delay go into  *)
(* the same keystroke group, in the order they arrive; a key release that  *)
(* arrives more than key_grouping_delay after the previous key has the     *)
(* open group recorded as a step first and then starts a new group.        *)
(* Stated of the call of _on_key_release that handles the key, when it     *)
(* ends.                                                                   *)
(***************************************************************************)
KeyEnds == pc["K"] # "idle" /\ pc'["K"] = "idle"

ArrivedLate ==
    /\ ev["K"].held # <<>>
    /\ ev["K"].current_time - last_key_time > key_grouping_delay

C22_KeysAreGroupedByDelay ==
    [][KeyEnds =>
         IF ArrivedLate
         THEN /\ \E i \in 1..Len(session'.steps) :
                    /\ session'.steps[i].type = "keystroke"
                    /\ session'.steps[i].keystrokes = ev["K"].held
              /\ current_keystrokes' = <<ev["K"].key>>
         ELSE current_keystrokes' = Append(current_keystrokes, ev["K"].key)]_vars


(***************************************************************************)
(* C30: should_capture returns True for every click and every keystroke;   *)
(* for any other event it returns True exactly when the current window     *)
(* title differs from the window title of the most recent event of any     *)
(* kind, so an idle tick right after a click or keystroke in the same      *)
(* window returns False.                                                   *)
(***************************************************************************)
C30_CaptureOnInputOrTitleChange ==
    smart_capture.asked # NoEvent =>
        IF smart_capture.asked.kind \in {"click", "keystroke"}
        THEN smart_capture.returned
        ELSE smart_capture.before # NoTitle =>
                (smart_capture.returned
                    <=> smart_capture.asked.title # smart_capture.before)


(***************************************************************************)
(* C24: export_all returns a map with exactly one boolean entry for each   *)
(* of docx, html, md and json; every exporter is tried whether or not an   *)
(* earlier one failed, and an exporter that fails gives False for its own  *)
(* entry only.                                                             *)
(***************************************************************************)
FormatSet == {Formats[i] : i \in 1..Len(Formats)}

C24_ExportAllReportsEveryFormat ==
    export.returned =>
        /\ DOMAIN export.results = FormatSet
        /\ Len(export.outcomes) = Len(Formats)
        /\ \A i \in 1..Len(Formats) :
              /\ export.results[Formats[i]] \in BOOLEAN
              /\ export.results[Formats[i]] = export.outcomes[i]

\* export_all has returned after an exporter failed and a later one succeeded
C24_ExportedAfterAFailure ==
    /\ export.returned
    /\ \E i, j \in 1..Len(export.outcomes) :
          i < j /\ ~export.outcomes[i] /\ export.outcomes[j]

(***************************************************************************)
(* C25: running the exporters leaves the session as it was: the steps in   *)
(* their order with every field, the statistics, start_time and end_time.  *)
(***************************************************************************)
ExporterActs == export' # export

C25_ExportLeavesTheSession == [][ExporterActs => session' = session]_vars

\* export_all has returned for a session that has a step with a screenshot
C25_ExportedASessionWithSteps ==
    /\ export.returned
    /\ \A i \in 1..Len(export.outcomes) : export.outcomes[i]
    /\ export.json_data # NoData
    /\ \E i \in 1..Len(Steps) : Steps[i].screenshot # NoPath


(***************************************************************************)
(* C21: get_statistics returns a point-in-time copy.  Steps recorded after *)
(* the call do not change the result it returned, and a change the caller  *)
(* makes to the returned dictionary or to its applications list does not   *)
(* change session.statistics.                                              *)
(***************************************************************************)
\* what the caller reads in the dictionary it was given
Returned == IF stats.dict = "session" THEN session.statistics ELSE stats.items

CallerActs == count'.edits # count.edits

C21_StatisticsAreACopy ==
    [][(stats.returned /\ stats'.returned) =>
          IF CallerActs
          THEN session'.statistics = session.statistics
          ELSE Returned' = Returned]_vars

\* a step was recorded after get_statistics returned, and the caller has changed
\* what it was given
C21_RecordedAndEditedAfterTheCall ==
    /\ stats.returned
    /\ count.edits > 0
    /\ session.statistics.total_steps > stats.items.total_steps


(***************************************************************************)
(* C26: a WorkflowManager method given a step_number that no step of the   *)
(* session has reports not-found, without raising and without changing     *)
(* session.steps: get_bookmarks and get_comments return an empty list,     *)
(* save_step_version, undo_step and redo_step return False.                *)
(***************************************************************************)
C26_UnknownStepIsNotFound ==
    (workflow.asked # NoEvent /\ ~workflow.asked.known) =>
        /\ workflow.asked.kept
        /\ workflow.asked.op \in {"get_bookmarks", "get_comments"}
              => workflow.returned = <<>>
        /\ workflow.asked.op \in {"save_step_version", "undo_step", "redo_step"}
              => workflow.returned = FALSE


(***************************************************************************)
(* C27: when load_auto_save has read a file that auto_save wrote, the      *)
(* session has the steps of the session that was saved, in the same order  *)
(* (step_number, type, content, application and screenshot of each), the   *)
(* same statistics (the counters and the set of applications), and the     *)
(* manager has the same bookmarks and comments.                            *)
(***************************************************************************)
StepFields == {"step_number", "type", "content", "application", "screenshot"}

SameSteps(steps, saved) ==
    /\ Len(steps) = Len(saved)
    /\ \A i \in 1..Len(saved) : \A f \in StepFields : steps[i][f] = saved[i][f]

Loads(k) ==
    /\ workflow'.calls = workflow.calls + 1
    /\ workflow'.asked = [op |-> "load_auto_save", file |-> k]
    /\ workflow'.returned = TRUE

C27_LoadRestoresWhatWasSaved ==
    [][\A k \in 1..Len(workflow.autosaves) :
          Loads(k) =>
             LET saved == workflow.autosaves[k].of
             IN  /\ SameSteps(session'.steps, saved.session.steps)
                 /\ session'.statistics = saved.session.statistics
                 /\ workflow'.bookmarks = saved.bookmarks
                 /\ workflow'.comments = saved.comments]_vars

\* C27 (witness): a file written of a session with a step and of a manager with
\* a bookmark has been loaded
C27_LoadedAFileWithStepsAndABookmark ==
    /\ workflow.asked = [op |-> "load_auto_save", file |-> 1]
    /\ workflow.returned = TRUE
    /\ workflow.autosaves[1].of.session.steps # <<>>
    /\ workflow.autosaves[1].of.bookmarks # <<>>
    /\ workflow.autosaves[1].of.session.statistics.applications # {}


(***************************************************************************)
(* C23: in StepRecorderApp a stop asked for in a listener callback is not  *)
(* executed on the listener thread.  An ESC release while recording hands  *)
(* stop to the UI event loop and is not added to the keystroke group; the  *)
(* recording then stops, in the end, with the group that was open written  *)
(* to the document.                                                        *)
(***************************************************************************)
StopOnlyOnTheLoop == app.ran \subseteq {"U"}

KeysOf(group) == {group[i] : i \in DOMAIN group}

EscIsNoKeystroke ==
    /\ Esc \notin KeysOf(app.current_keystrokes)
    /\ \A i \in DOMAIN app.doc : Esc \notin KeysOf(app.doc[i].group)

StopPending == \E cb \in BagToSet(app.after) : cb.f = "stop"

InStop(t) ==
    \/ app.pc[t] \in {"stop", "stop_rest"}
    \/ app.pc[t] \in {"flush_write", "flush_clear"} /\ app.ret[t] = "stop_rest"

EscSchedulesStop ==
    (app.esc.n > 0 /\ app.recording) => (StopPending \/ InStop("U"))

AppAtRest == \A t \in Threads : app.pc[t] = "idle"

OpenGroupFlushed ==
    (app.esc.n > 0 /\ ~app.recording /\ AppAtRest) =>
        \A key \in KeysOf(app.esc.group) :
            \E i \in DOMAIN app.doc : key \in KeysOf(app.doc[i].group)

C23_EscStopsOnTheEventLoop ==
    /\ [](StopOnlyOnTheLoop /\ EscIsNoKeystroke /\ EscSchedulesStop /\ OpenGroupFlushed)
    /\ (StopPending ~> ~app.recording)

(***************************************************************************)
(* C31.  While the recorder is paused no click step and no keystroke step  *)
(* is appended to session.steps; in particular process_queue, run during   *)
(* the pause, does not turn a click queued before the pause into a step.   *)
(***************************************************************************)
InputSteps(steps) ==
    Cardinality({i \in 1..Len(steps) : steps[i].type \in {"click", "keystroke"}})

C31_NoInputStepWhilePaused ==
    [][(recording /\ paused /\ recording' /\ paused') =>
          InputSteps(session'.steps) = InputSteps(session.steps)]_vars


(***************************************************************************)
(* C32.  Whatever the interleaving of the two listener threads and the UI  *)
(* thread, each key released while recording and not paused is, once       *)
(* stop_recording has returned, in the keystrokes of exactly one keystroke *)
(* step: none is lost and none is recorded twice.  Stated for one session  *)
(* without pause and without a failing capture, where every key delivered  *)
(* was accepted by _on_key_release.                                        *)
(***************************************************************************)
KeystrokeStepsWith(key) ==
    {i \in 1..Len(Steps) :
        /\ Steps[i].type = "keystroke"
        /\ \E j \in 1..Len(Steps[i].keystrokes) : Steps[i].keystrokes[j] = key}

C32_EveryKeyInExactlyOneStep ==
    (/\ count.starts = 1 /\ count.startfails = 0 /\ count.pauses = 0
     /\ count.fails = 0
     /\ StoppedAtRest) =>
        \A n \in 1..count.keys : Cardinality(KeystrokeStepsWith(NthKey(n))) = 1


(***************************************************************************)
(* C33.  Every step of a session comes from an input given after that      *)
(* session's start_recording: the click of a click step and the keys of a  *)
(* keystroke step were not delivered before the start, so a click left in  *)
(* the queue, or a key left in the buffer, by the session before is never  *)
(* a step of this one.                                                     *)
(***************************************************************************)
DeliveredBeforeStart(kind) ==
    IF kind = "click"
    THEN {NthClick(n) : n \in 1..count.atStart.clicks}
    ELSE {NthKey(n) : n \in 1..count.atStart.keys}

C33_StepsComeFromThisSession ==
    \A i \in 1..Len(Steps) :
        /\ Steps[i].type = "click" =>
              Steps[i].coordinates \notin DeliveredBeforeStart("click")
        /\ Steps[i].type = "keystroke" =>
              \A j \in 1..Len(Steps[i].keystrokes) :
                  Steps[i].keystrokes[j] \notin DeliveredBeforeStart("key")


(***************************************************************************)
(* C34.  At any time at most one thread runs _timer_loop, whatever the     *)
(* sequence of start, pause, resume and stop calls: a resume that no pause *)
(* preceded, a pause and a resume within one tick of the timer, a stop and *)
(* a new start within one tick.                                            *)
(***************************************************************************)
TimerThreads == timers.run + BagCardinality(timers.write)

C34_OneTimerThread == TimerThreads <= 1


\* C35: in EnhancedStepRecorder, whenever a recording is active and the window
\* is not inside start_recording or stop_recording, the paused flag of the window
\* equals the paused flag of the recorder, whatever start, toggle-pause and stop
\* presses came before, over one session or several.
C35_PausedFlagsAgree ==
    (ui.recording /\ recording /\ ui.pc = "idle") => ui.paused = paused

\* C36: whenever an export runs, the docx save of stop_recording or a later
\* Export All, every screenshot that a step of the session names is a file that
\* exists.
C36_ExportFindsTheScreenshots == ui.exported.missing = {}


\* C37: a call of undo_step(n) or redo_step(n) changes no step whose step_number
\* is not n, and it leaves at every position of session.steps a step with the
\* step_number that was there before: redo never installs data that was saved
\* for another step.
UndoOrRedoActs ==
    /\ workflow'.calls = workflow.calls + 1
    /\ "op" \in DOMAIN workflow'.asked
    /\ workflow'.asked.op \in {"undo_step", "redo_step"}

C37_UndoAndRedoTouchOnlyTheirStep ==
    [][UndoOrRedoActs =>
         /\ Len(session'.steps) = Len(session.steps)
         /\ \A i \in 1..Len(session.steps) :
              /\ session'.steps[i].step_number = session.steps[i].step_number
              /\ session.steps[i].step_number # workflow'.asked.step_number
                    => session'.steps[i] = session.steps[i]]_vars


\* C38: in StepRecorderApp the step entries of the document carry the numbers
\* 1, 2, ..., N in this order, with no gap and no number twice, also when a
\* capture has failed and the simplified entry was written.
StepEntries(doc) == FilterSeq(doc, {e \in set(doc) : e.kind # "note"})

C38_DocumentStepsAre1toN ==
    \A i \in 1..Len(StepEntries(app.doc)) : StepEntries(app.doc)[i].step = i

=============================================================================
